---- MODULE Spec2Model ----
(***************************************************************************)
(* Model of the MCP client layer of whatsapp-Agent-for-HR:                 *)
(*   src/src/mcp_integration/{retry,factory,base,stdio,sse,tool_wrapper,   *)
(*     streamable_http_client,websocket,multi_server_client}.py            *)
(*   src/src/tools/{loader,registry}.py                                    *)
(*                                                                         *)
(* Python values are represented as follows.                               *)
(*   dict            a function whose DOMAIN is the set of keys present    *)
(*   str (url, msg)  a sequence of tokens; "" is <<>>                      *)
(*   list-or-not     [islist |-> BOOLEAN, items |-> sequence]              *)
(*   exception       its class name                                        *)
(***************************************************************************)
EXTENDS Integers, Sequences, FiniteSets, TLC

VARIABLES
    vConfig,      \* validate_config: the argument
    vResult,      \* validate_config: the returned pair
    rIn,          \* retry_async: arguments and the behaviour of func/on_retry
    rOut,         \* retry_async: what the call did
    heap,         \* the clients and context managers that exist, and the call log
    ops,          \* the calls made on the client under test, with their results
    document,     \* ToolLoader: the composition document (config/tools.yaml)
    loader,       \* ToolLoader: its fields and its place in _load_tools_async
    iIn,          \* a tool invocation: the tool, the entry point, the call site
    iOut,         \* a tool invocation: what the call did
    sIn,          \* a schema translation: the translator and the parameter
    sOut,         \* a schema translation: the field built for the parameter
    manager       \* DynamicMCPManager: its fields

varsValidate == <<vConfig, vResult>>
varsRetry    == <<rIn, rOut>>
varsClient   == <<heap, ops>>
varsLoader   == <<document, loader>>
varsInvoke   == <<iIn, iOut>>
varsSchema   == <<sIn, sOut>>
varsManager  == <<manager>>
vars         == <<vConfig, vResult, rIn, rOut, heap, ops, document, loader,
                  iIn, iOut, sIn, sOut, manager>>

(***************************************************************************)
(* Generic helpers                                                         *)
(***************************************************************************)
Has(d, k) == k \in DOMAIN d
Get(d, k, default) == IF k \in DOMAIN d THEN d[k] ELSE default
Range(s) == {s[i] : i \in DOMAIN s}
EmptyDict == <<>>
Min(a, b) == IF a <= b THEN a ELSE b

\* Op applied to the value of v, computed once
With(v, Op(_)) == CHOOSE r \in {Op(w) : w \in {v}} : TRUE

RECURSIVE Pow(_, _)
Pow(b, e) == IF e <= 0 THEN 1 ELSE b * Pow(b, e - 1)

\* str.lower() on the type tags that occur
Lower(s) == CASE s = "STDIO" -> "stdio"
              [] s = "SSE"   -> "sse"
              [] OTHER       -> s

\* str.startswith(tuple of prefixes); the first token of a url is its scheme
StartsWith(str, prefixes) == Len(str) > 0 /\ str[1] \in prefixes

(***************************************************************************)
(* factory.py: validate_config                                             *)
(***************************************************************************)
Accept == [ok |-> TRUE, msg |-> <<>>]
Reject(message) == [ok |-> FALSE, msg |-> message]

ClientType(config) == Lower(Get(config, "type", "stdio"))

supported_types ==
    {"stdio", "sse", "streamable_http", "streamable-http", "http",
     "websocket", "ws", "wss", "multi"}

\* ValidateStdio without the checks of lines 86-89
ValidateStdio_skipArgs(config) ==
    IF ~Has(config, "command")
    THEN Reject(<<"stdio config requires '", "command", "' field">>)
    ELSE Accept

\* lines 83-89
ValidateStdio(config) ==
    IF ~Has(config, "command")
    THEN Reject(<<"stdio config requires '", "command", "' field">>)
    ELSE IF ~Has(config, "args")
    THEN Reject(<<"stdio config requires '", "args", "' field">>)
    ELSE IF ~config.args.islist
    THEN Reject(<<"'", "args", "' must be a list">>)
    ELSE Accept

\* lines 92-110: the three url transports differ in label and schemes only
ValidateUrl(config, label, schemes, schemeMsg) ==
    IF ~Has(config, "url")
    THEN Reject(<<label, " config requires '", "url", "' field">>)
    ELSE IF ~StartsWith(config.url, schemes)
    THEN Reject(<<"'", "url", "' must start with ", schemeMsg>>)
    ELSE Accept

RECURSIVE validate_config(_)
RECURSIVE ValidateServers(_, _)

\* the for loop of lines 122-129, from index i (0-based in the message)
ValidateServers(items, i) ==
    IF i > Len(items) THEN Accept
    ELSE IF ~Has(items[i], "name")
    THEN Reject(<<"Server ", ToString(i - 1), " missing '", "name", "' field">>)
    ELSE LET sub == validate_config(items[i])
         IN  IF ~sub.ok
             THEN Reject(<<"Server '", items[i].name, "': ">> \o sub.msg)
             ELSE ValidateServers(items, i + 1)

\* lines 113-129
ValidateMulti(config) ==
    IF ~Has(config, "servers")
    THEN Reject(<<"multi config requires '", "servers", "' field">>)
    ELSE IF ~config.servers.islist
    THEN Reject(<<"'", "servers", "' must be a list">>)
    ELSE IF Len(config.servers.items) = 0
    THEN Reject(<<"'", "servers", "' list cannot be empty">>)
    ELSE ValidateServers(config.servers.items, 1)

\* lines 65-131
validate_config(config) ==
    LET client_type == ClientType(config)
    IN  IF client_type \notin supported_types
        THEN Reject(<<"Unsupported type: '", client_type, "'. Supported: ",
                      "stdio, streamable_http, sse, websocket, multi">>)
        ELSE IF client_type = "stdio" THEN ValidateStdio(config)
        ELSE IF client_type = "sse"
        THEN ValidateUrl(config, "sse", {"http://", "https://"},
                         "http:// or https://")
        ELSE IF client_type \in {"streamable_http", "streamable-http", "http"}
        THEN ValidateUrl(config, "streamable_http", {"http://", "https://"},
                         "http:// or https://")
        ELSE IF client_type \in {"websocket", "ws", "wss"}
        THEN ValidateUrl(config, "websocket", {"ws://", "wss://"},
                         "ws:// or wss://")
        ELSE ValidateMulti(config)

(***************************************************************************)
(* The configs validate_config is applied to                               *)
(***************************************************************************)
ArgsList    == [islist |-> TRUE,  items |-> <<"hi">>]
ArgsNotList == [islist |-> FALSE, items |-> <<>>]

TypeTags == {"stdio", "sse", "streamable_http", "websocket", "multi",
             "http", "streamable-http", "ws", "wss", "STDIO", "grpc"}

Absent   == {EmptyDict}
TypeOpts == Absent \cup {"type" :> t : t \in TypeTags}
CmdOpts  == Absent \cup {"command" :> c : c \in {"echo", ""}}
ArgsOpts == Absent \cup {"args" :> a : a \in {ArgsList, ArgsNotList}}
Urls     == {<<"http://", "host">>, <<"https://", "host">>, <<"ws://", "host">>,
             <<"wss://", "host">>, <<"ftp://", "host">>, <<>>}
UrlOpts  == Absent \cup {"url" :> u : u \in Urls}
NameOpts == Absent \cup {"name" :> n : n \in {"a", "b"}}

\* configs without a servers list
LeafValidateConfigs ==
    {t @@ c @@ a @@ u : t \in TypeOpts, c \in CmdOpts, a \in ArgsOpts, u \in UrlOpts}

\* entries of a servers list
SubServerBodies ==
    { [type |-> "stdio", command |-> "echo", args |-> ArgsList],
      [type |-> "stdio", args |-> ArgsList],
      [type |-> "sse", url |-> <<"https://", "host">>],
      [type |-> "websocket"],
      [type |-> "multi",
       servers |-> [islist |-> TRUE,
                    items |-> << [name |-> "c", type |-> "sse"] >>]] }

SubServerConfigs == {n @@ b : n \in NameOpts, b \in SubServerBodies}

MaxServers == 2

ServerLists ==
    UNION {[1..n -> SubServerConfigs] : n \in 0..MaxServers}

ServersOpts ==
    Absent
      \cup {"servers" :> [islist |-> FALSE, items |-> <<>>]}
      \cup {"servers" :> [islist |-> TRUE, items |-> l] : l \in ServerLists}

MultiValidateConfigs ==
    {[type |-> "multi"] @@ s @@ u : s \in ServersOpts, u \in {EmptyDict, "url" :> <<>>}}

ValidateConfigs == LeafValidateConfigs \cup MultiValidateConfigs

NotValidated == [ok |-> FALSE, msg |-> <<"<not called>">>]

InitValidate ==
    /\ vConfig \in ValidateConfigs
    /\ vResult = NotValidated

\* one call validate_config(vConfig)
Validate ==
    /\ vResult = NotValidated
    /\ vResult' = validate_config(vConfig)
    /\ UNCHANGED <<vConfig, varsRetry, varsClient, varsLoader, varsInvoke, varsSchema, varsManager>>

(***************************************************************************)
(* retry.py: RetryConfig, retry_async                                      *)
(*                                                                         *)
(* func is given by what each of its calls does: outcomes[i] is the        *)
(* outcome of the i-th call.  random.random() is given by factor[i], the   *)
(* jitter factor drawn after the i-th failure, in quarters (2/4 .. 4/4).   *)
(* Delays are kept in quarter seconds so that a jittered delay is whole.   *)
(***************************************************************************)
RetryConfig(max_attempts, base_delay, max_delay, exponential_base, jitter) ==
    [max_attempts |-> max_attempts, base_delay |-> base_delay,
     max_delay |-> max_delay, exponential_base |-> exponential_base,
     jitter |-> jitter]

DefaultMaxAttempts     == 3
DefaultBaseDelay       == 1
DefaultMaxDelay        == 60
DefaultExponentialBase == 2

\* the classes an exception of class cls is an instance of
Supers(cls) ==
    CASE cls = "ConnectionError" -> {"ConnectionError", "OSError", "Exception", "BaseException"}
      [] cls = "TimeoutError"    -> {"TimeoutError", "OSError", "Exception", "BaseException"}
      [] cls = "OSError"         -> {"OSError", "Exception", "BaseException"}
      [] cls = "RuntimeError"    -> {"RuntimeError", "Exception", "BaseException"}
      [] cls = "ValueError"      -> {"ValueError", "Exception", "BaseException"}
      [] cls = "KeyError"        -> {"KeyError", "Exception", "BaseException"}
      [] cls = "ImportError"     -> {"ImportError", "Exception", "BaseException"}
      [] cls = "CancelledError"  -> {"CancelledError", "BaseException"}
      [] OTHER                   -> {cls, "Exception", "BaseException"}

\* except <classes> as e
Caught(cls, classes) == Supers(cls) \cap classes # {}

JitterFactors == {2, 3, 4}

\* lines 78-81 without the cap
BackoffDelay_uncapped(config, attempt) ==
    config.base_delay * Pow(config.exponential_base, attempt - 1)

\* lines 78-81: the backoff delay after failed attempt `attempt`, in seconds
BackoffDelay(config, attempt) ==
    Min(config.base_delay * Pow(config.exponential_base, attempt - 1),
        config.max_delay)

\* lines 78-85: the delay slept, in quarter seconds
AttemptDelay(config, attempt, factor) ==
    IF config.jitter
    THEN BackoffDelay(config, attempt) * factor
    ELSE BackoffDelay(config, attempt) * 4

NoError == [cls |-> "None", call |-> 0]
ErrorOf(in, attempt) == [cls |-> in.outcomes[attempt].err, call |-> attempt]

RetryStart ==
    [calls |-> 0, sleeps |-> <<>>, observed |-> <<>>, events |-> <<>>,
     status |-> "running", error |-> NoError, result |-> 0]

\* lines 88-95 with the observer's exception let through
CallObserver_propagates(in, attempt, delay, acc) ==
    IF in.on_retry.present
    THEN [acc |-> [acc EXCEPT
                     !.observed = Append(@, <<attempt, ErrorOf(in, attempt), delay>>),
                     !.events = Append(@, "observe")],
          raised |-> attempt \in in.on_retry.raisesAt]
    ELSE [acc |-> [acc EXCEPT !.events = Append(@, "print")], raised |-> FALSE]

\* lines 88-99: on_retry(attempt, e, delay), its Exception swallowed;
\* the default print when there is no callback
CallObserver(in, attempt, delay, acc) ==
    IF in.on_retry.present
    THEN [acc |-> [acc EXCEPT
                     !.observed = Append(@, <<attempt, ErrorOf(in, attempt), delay>>),
                     !.events = Append(@, "observe")],
          raised |-> FALSE]
    ELSE [acc |-> [acc EXCEPT !.events = Append(@, "print")], raised |-> FALSE]

\* line 73 with the bound off by one
IsLastAttempt_offByOne(config, attempt) == attempt >= config.max_attempts - 1

\* line 73: the last attempt failed
IsLastAttempt(config, attempt) == attempt >= config.max_attempts

\* lines 73-75: `raise` re-raises the exception being handled
FinalError(in, attempt, acc) == ErrorOf(in, attempt)

RECURSIVE RetryLoop(_, _, _)
\* lines 66-107: the for loop from `attempt`, then the code after the loop
RetryLoop(in, attempt, acc) ==
    IF attempt > in.config.max_attempts
    THEN \* lines 104-107
         IF acc.error # NoError
         THEN [acc EXCEPT !.status = "raised"]
         ELSE [acc EXCEPT !.status = "raised",
                          !.error = [cls |-> "RuntimeError", call |-> 0]]
    ELSE LET called == [acc EXCEPT !.calls = @ + 1, !.events = Append(@, "call")]
         IN  IF in.outcomes[attempt].ok
             THEN [called EXCEPT !.status = "returned", !.result = attempt]
             ELSE IF ~Caught(in.outcomes[attempt].err, in.exceptions)
             THEN [called EXCEPT !.status = "raised", !.error = ErrorOf(in, attempt)]
             ELSE IF IsLastAttempt(in.config, attempt)
             THEN [called EXCEPT !.status = "raised",
                                 !.error = FinalError(in, attempt, called)]
             ELSE LET delay == AttemptDelay(in.config, attempt, in.factor[attempt])
                      seen  == CallObserver(in, attempt, delay,
                                   [called EXCEPT !.error = ErrorOf(in, attempt)])
                  IN  IF seen.raised
                      THEN [seen.acc EXCEPT !.status = "raised",
                                !.error = [cls |-> "ObserverError", call |-> attempt]]
                      ELSE RetryLoop(in, attempt + 1,
                               [seen.acc EXCEPT !.sleeps = Append(@, delay),
                                                !.events = Append(@, "sleep")])

\* lines 40-107
retry_async(in) == RetryLoop(in, 1, RetryStart)

(***************************************************************************)
(* The calls of retry_async that are checked                               *)
(***************************************************************************)
MaxAttempts == 3

AttemptRange == 1..MaxAttempts

RetryPolicies ==
    {RetryConfig(n, b, m, e, j) :
        n \in 0..MaxAttempts, b \in {1, 2}, m \in {3, DefaultMaxDelay},
        e \in {2, 3}, j \in BOOLEAN}

CallOutcomes ==
    {[ok |-> TRUE, err |-> "None"]}
      \cup {[ok |-> FALSE, err |-> c] :
               c \in {"TimeoutError", "CancelledError"}}

Observers ==
    {[present |-> FALSE, raisesAt |-> {}]}
      \cup {[present |-> TRUE, raisesAt |-> s] : s \in {{}, {1}, AttemptRange}}

RetryInputs ==
    {[config |-> p, exceptions |-> x, outcomes |-> o, factor |-> f, on_retry |-> w] :
        p \in RetryPolicies,
        x \in {{"Exception"}, {"ConnectionError", "TimeoutError"}},
        o \in [AttemptRange -> CallOutcomes],
        f \in {[i \in AttemptRange |-> 4], [i \in AttemptRange |-> 2 + (i % 2)]},
        w \in Observers}

InitRetry ==
    /\ rIn \in RetryInputs
    /\ rOut = RetryStart

\* one call retry_async(func, config, exceptions, on_retry)
Retry ==
    /\ rOut.status = "running"
    /\ rOut' = retry_async(rIn)
    /\ UNCHANGED <<rIn, varsValidate, varsClient, varsLoader, varsInvoke, varsSchema, varsManager>>

(***************************************************************************)
(* The objects of a run: clients, the channel and session context          *)
(* managers they create, and a log of what was called.                     *)
(*                                                                         *)
(* A heap h is [clients, ctxs, log, validated, env, pos]:                  *)
(*   clients    sequence of client objects; a client's id is its index     *)
(*   ctxs       sequence of context managers; 0 stands for None            *)
(*   log        the calls made, in order                                   *)
(*   validated  the configs validate_config was called on by a loader      *)
(*   env, pos   what the servers do during the operation in progress:      *)
(*              env.outs[k] is the behaviour met by the k-th transport     *)
(*              client that connects, pos the number that have connected   *)
(***************************************************************************)
EmptyHeap ==
    [clients |-> <<>>, ctxs |-> <<>>, log |-> <<>>, validated |-> {},
     env |-> [outs |-> <<>>, exitErr |-> FALSE, factor |-> 4], pos |-> 0]

Event(ev, client, n) == [ev |-> ev, client |-> client, n |-> n]
Logged(h, ev, client, n) == [h EXCEPT !.log = Append(@, Event(ev, client, n))]

\* the steps of connect() at which the server or the channel can fail
FailStages == {"open", "session", "initialize"}

\* the behaviour one transport client meets while it connects: its first
\* nfail connect() calls fail at `stage`, the later ones succeed
Outcome(nfail, stage) == [nfail |-> nfail, stage |-> stage]
StageAt(out, attempt) == IF attempt <= out.nfail THEN out.stage ELSE "ok"

UrlOf(config) == Get(config, "url", <<>>)

NewClient(cls, server_name, config, policy) ==
    [cls |-> cls, server_name |-> server_name, config |-> config,
     url |-> UrlOf(config),
     client_context |-> 0, session_context |-> 0, session |-> 0,
     tools |-> <<>>, is_connected |-> FALSE,
     retry_config |-> policy,
     owner |-> 0,          \* the multi client that created it (not a field)
     sub_clients |-> <<>>,
     servers |-> IF Has(config, "servers") THEN config.servers.items ELSE <<>>]

\* retry.py lines 157-174: RetryMixin.__init__
MixinRetryConfig(config) ==
    RetryConfig(Get(config, "retry_attempts", DefaultMaxAttempts),
                Get(config, "retry_delay", DefaultBaseDelay),
                Get(config, "retry_max_delay", DefaultMaxDelay),
                DefaultExponentialBase, TRUE)

\* retry.py lines 207-236: get_retry_config_from_dict, which no client calls
get_retry_config_from_dict(config_dict) ==
    RetryConfig(Get(config_dict, "retry_attempts", DefaultMaxAttempts),
                Get(config_dict, "retry_delay", DefaultBaseDelay),
                Get(config_dict, "retry_max_delay", DefaultMaxDelay),
                Get(config_dict, "retry_exponential_base", DefaultExponentialBase),
                Get(config_dict, "retry_jitter", TRUE))

\* MultiServerMCPClient does not inherit RetryMixin: it has no retry_config
NoRetryConfig == RetryConfig(0, 0, 0, 0, FALSE)

\* factory.py lines 34-62: the class create_mcp_client picks
ClientClass(config) ==
    LET client_type == ClientType(config)
    IN  CASE client_type = "stdio" -> "stdio"
          [] client_type = "sse" -> "sse"
          [] client_type \in {"streamable_http", "http", "streamable-http"} -> "streamable_http"
          [] client_type \in {"websocket", "ws", "wss"} -> "websocket"
          [] client_type = "multi" -> "multi"
          [] OTHER -> "ValueError"

\* factory.py lines 13-62: create_mcp_client; id = 0 when it raises ValueError
create_mcp_client(h, server_name, config) ==
    LET cls == ClientClass(config)
        id  == Len(h.clients) + 1
    IN  IF cls = "ValueError"
        THEN [h |-> h, id |-> 0, raised |-> "ValueError"]
        ELSE [h |-> Logged([h EXCEPT !.clients = Append(@,
                               NewClient(cls, server_name, config,
                                   IF cls = "multi" THEN NoRetryConfig
                                   ELSE MixinRetryConfig(config)))],
                           "create", id, 0),
              id |-> id, raised |-> "None"]

\* hasattr(client, 'connect_with_retry')
HasRetry(client) == client.cls # "multi"

(***************************************************************************)
(* Context managers                                                        *)
(***************************************************************************)
NewCtx(owner, role) == [owner |-> owner, role |-> role, entered |-> FALSE, exits |-> 0]

\* await ctx.__aexit__(None, None, None)
ExitCtx(h, cx) == [h EXCEPT !.ctxs[cx].exits = @ + 1]

(***************************************************************************)
(* sse.py 77-96, streamable_http_client.py 86-105, websocket.py 83-102:    *)
(* close().  An Exception of __aexit__ is caught and the field is cleared  *)
(* in the finally clause, so the result does not depend on h.env.exitErr.  *)
(***************************************************************************)
\* close() without the try/except/finally around the two __aexit__ calls
UrlClientClose_uncaught(h, id) ==
    LET c  == h.clients[id]
        h1 == IF c.session_context # 0 THEN ExitCtx(h, c.session_context) ELSE h
    IN  IF h.env.exitErr /\ c.session_context # 0
        THEN [h |-> Logged(h1, "close", id, 0), raised |-> "RuntimeError"]
        ELSE LET h2 == IF c.client_context # 0 THEN ExitCtx(h1, c.client_context) ELSE h1
             IN  IF h.env.exitErr /\ c.client_context # 0
                 THEN [h |-> Logged([h2 EXCEPT !.clients[id].session_context = 0],
                                    "close", id, 0),
                       raised |-> "RuntimeError"]
                 ELSE [h |-> Logged([h2 EXCEPT !.clients[id].session_context = 0,
                                               !.clients[id].client_context = 0,
                                               !.clients[id].is_connected = FALSE,
                                               !.clients[id].session = 0],
                                    "close", id, 0),
                       raised |-> "None"]

UrlClientClose(h, id) ==
    LET c  == h.clients[id]
        h1 == IF c.session_context # 0 THEN ExitCtx(h, c.session_context) ELSE h
        h2 == IF c.client_context # 0 THEN ExitCtx(h1, c.client_context) ELSE h1
    IN  [h |-> Logged([h2 EXCEPT !.clients[id].session_context = 0,
                                 !.clients[id].client_context = 0,
                                 !.clients[id].is_connected = FALSE,
                                 !.clients[id].session = 0],
                      "close", id, 0),
         raised |-> "None"]

\* stdio.py 89-119 with the contexts left referenced after __aexit__
StdioClose_keepsContexts(h, id) ==
    LET c  == h.clients[id]
        h1 == IF c.session_context # 0 THEN ExitCtx(h, c.session_context) ELSE h
        h2 == IF c.client_context # 0 THEN ExitCtx(h1, c.client_context) ELSE h1
    IN  IF ~c.is_connected /\ c.session_context = 0 /\ c.client_context = 0
        THEN [h |-> Logged(h, "close", id, 0), raised |-> "None"]
        ELSE [h |-> Logged([h2 EXCEPT !.clients[id].is_connected = FALSE,
                                      !.clients[id].session = 0],
                           "close", id, 0),
              raised |-> "None"]

\* stdio.py 89-119: close()
StdioClose(h, id) ==
    LET c  == h.clients[id]
        h1 == IF c.session_context # 0 THEN ExitCtx(h, c.session_context) ELSE h
        h2 == IF c.client_context # 0 THEN ExitCtx(h1, c.client_context) ELSE h1
    IN  IF ~c.is_connected /\ c.session_context = 0 /\ c.client_context = 0
        THEN [h |-> Logged(h, "close", id, 0), raised |-> "None"]
        ELSE [h |-> Logged([h2 EXCEPT !.clients[id].session_context = 0,
                                      !.clients[id].client_context = 0,
                                      !.clients[id].is_connected = FALSE,
                                      !.clients[id].session = 0],
                           "close", id, 0),
              raised |-> "None"]

\* stdio.py 72-87: _cleanup_internal drops the contexts without exiting them
StdioCleanupInternal(h, id) ==
    [h EXCEPT !.clients[id].session_context = 0,
              !.clients[id].client_context = 0,
              !.clients[id].session = 0,
              !.clients[id].is_connected = FALSE]

TransportClose(h, id) ==
    IF h.clients[id].cls = "stdio" THEN StdioClose(h, id) ELSE UrlClientClose(h, id)

(***************************************************************************)
(* connect() of the four transport clients                                 *)
(***************************************************************************)
\* the tools the server of a config exposes (load_mcp_tools)
RemoteToolNames(config) ==
    IF ClientClass(config) = "stdio"
    THEN IF Get(config, "command", "") = "echo" THEN <<"t1", "t2">> ELSE <<>>
    ELSE <<"t1">>

\* tool_wrapper.py 47-69: wrap_tools_list renames each tool to prefix_name;
\* a tool is its name and the client whose session it calls
Prefixed(prefix, name) == IF prefix # "" THEN <<prefix, "_">> \o name ELSE name

wrap_tools_list(tools, prefix) ==
    [i \in DOMAIN tools |-> [tools[i] EXCEPT !.name = Prefixed(prefix, @)]]

LoadMcpTools(h, id) ==
    LET names == RemoteToolNames(h.clients[id].config)
    IN  [i \in DOMAIN names |-> [name |-> <<names[i]>>, conn |-> id]]

\* what connect() raises before it opens anything, from the config alone:
\* stdio.py 38-42 (config["command"], config["args"]); sse.py 48-49,
\* streamable_http_client.py 44-45, websocket.py 45-52
ConfigError(c) ==
    CASE c.cls = "stdio" ->
            IF ~Has(c.config, "command") \/ ~Has(c.config, "args") THEN "KeyError"
            ELSE IF ~c.config.args.islist THEN "ValueError"
            ELSE "None"
      [] c.cls \in {"sse", "streamable_http"} ->
            IF c.url = <<>> THEN "ValueError" ELSE "None"
      [] c.cls = "websocket" ->
            IF c.url = <<>> THEN "ValueError"
            ELSE IF ~StartsWith(c.url, {"ws://", "wss://"}) THEN "ValueError"
            ELSE "None"
      [] OTHER -> "None"

\* streamable_http_client.py 47-51: the url is made to end with /mcp/
NormalizedUrl(c) ==
    IF c.cls = "streamable_http" /\ c.url # <<>>
         /\ c.url[Len(c.url)] \notin {"/mcp", "/mcp/"}
    THEN c.url \o <<"/mcp/">>
    ELSE c.url

\* connect() re-raising without the cleanup of its except clause
ConnectFailed_noCleanup(h, id, err) ==
    [h |-> Logged(h, "connect", id, 0), raised |-> err]

\* the except clause of connect(): stdio.py 66-70 (_cleanup_internal),
\* sse.py 72-75, streamable_http_client.py 81-84, websocket.py 78-81 (close)
ConnectFailed(h, id, err) ==
    [h |-> Logged(IF h.clients[id].cls = "stdio"
                  THEN StdioCleanupInternal(h, id)
                  ELSE UrlClientClose(h, id).h,
                  "connect", id, 0),
     raised |-> err]

\* one call of connect() on transport client id, the server failing at
\* `stage` ("ok": not at all): stdio.py 34-70, sse.py 36-75,
\* streamable_http_client.py 32-84, websocket.py 32-81
TransportConnect(h, id, stage) ==
    LET c    == h.clients[id]
        cc   == Len(h.ctxs) + 1
        sc   == Len(h.ctxs) + 2
        \* self._client_context = <transport>_client(...)
        hCC  == [h EXCEPT !.clients[id].url = NormalizedUrl(c),
                          !.clients[id].client_context = cc,
                          !.ctxs = Append(@, NewCtx(id, "client"))]
        \* await self._client_context.__aenter__(); ClientSession(read, write)
        hSC  == [hCC EXCEPT !.ctxs[cc].entered = TRUE,
                            !.clients[id].session_context = sc,
                            !.ctxs = Append(@, NewCtx(id, "session"))]
        \* self.session = await self._session_context.__aenter__()
        hS   == [hSC EXCEPT !.ctxs[sc].entered = TRUE,
                            !.clients[id].session = sc]
        \* initialize, load_mcp_tools, wrap_tools_list
        hOK  == [hS EXCEPT !.clients[id].tools =
                               wrap_tools_list(LoadMcpTools(h, id), c.server_name),
                           !.clients[id].is_connected = TRUE]
    IN  IF ConfigError(c) # "None" THEN ConnectFailed(h, id, ConfigError(c))
        ELSE IF stage = "open" THEN ConnectFailed(hCC, id, "ConnectionError")
        ELSE IF stage = "session" THEN ConnectFailed(hSC, id, "ConnectionError")
        ELSE IF stage = "initialize" THEN ConnectFailed(hS, id, "ConnectionError")
        ELSE [h |-> Logged(hOK, "connect", id, 1), raised |-> "None"]

(***************************************************************************)
(* retry.py 176-202: RetryMixin.connect_with_retry                         *)
(***************************************************************************)
Max(a, b) == IF a >= b THEN a ELSE b

\* the behaviour met by the next transport client that connects
NextOutcome(h) ==
    IF h.pos + 1 \in DOMAIN h.env.outs THEN h.env.outs[h.pos + 1] ELSE Outcome(0, "open")

\* what the calls of self.connect do, as retry_async sees them
ConnectOutcomes(c, out) ==
    [i \in 1..Max(c.retry_config.max_attempts, 1) |->
        IF ConfigError(c) # "None" THEN [ok |-> FALSE, err |-> ConfigError(c)]
        ELSE IF StageAt(out, i) = "ok" THEN [ok |-> TRUE, err |-> "None"]
        ELSE [ok |-> FALSE, err |-> "ConnectionError"]]

RECURSIVE ApplyAttempts(_, _, _, _, _)
\* the effect on the heap of the calls retry_async made, from call i on
ApplyAttempts(h, id, out, r, i) ==
    IF i > r.calls THEN h
    ELSE With(TransportConnect(h, id, StageAt(out, i)).h, LAMBDA done :
           ApplyAttempts(
               IF i <= Len(r.sleeps) THEN Logged(done, "sleep", id, r.sleeps[i]) ELSE done,
               id, out, r, i + 1))

\* the arguments connect_with_retry gives retry_async (lines 183-202)
ConnectRetryInput(h, id) ==
    LET c == h.clients[id]
    IN  [config |-> c.retry_config,
         exceptions |-> {"ConnectionError", "TimeoutError", "OSError",
                         "RuntimeError", "Exception"},
         outcomes |-> ConnectOutcomes(c, NextOutcome(h)),
         factor |-> [i \in 1..Max(c.retry_config.max_attempts, 1) |-> h.env.factor],
         on_retry |-> [present |-> TRUE, raisesAt |-> {}]]

connect_with_retry(h, id) ==
    With(retry_async(ConnectRetryInput(h, id)), LAMBDA r :
      With(ApplyAttempts([h EXCEPT !.pos = @ + 1], id, NextOutcome(h), r, 1), LAMBDA h1 :
        [h |-> h1,
         raised |-> IF r.status = "raised" THEN r.error.cls ELSE "None",
         tools |-> IF r.status = "returned" THEN h1.clients[id].tools ELSE <<>>]))

(***************************************************************************)
(* multi_server_client.py: MultiServerMCPClient                            *)
(***************************************************************************)
\* a dict is a sequence of [key, val] in insertion order
DictHas(d, k) == \E i \in DOMAIN d : d[i].key = k
DictSet(d, k, v) ==
    IF DictHas(d, k)
    THEN [i \in DOMAIN d |-> IF d[i].key = k THEN [key |-> k, val |-> v] ELSE d[i]]
    ELSE Append(d, [key |-> k, val |-> v])

\* client sub was created by multi client id
OwnedBy(h, sub, id) == [h EXCEPT !.clients[sub].owner = id]

RECURSIVE MultiConnect(_, _)
RECURSIVE MultiConnectLoop(_, _, _, _)
RECURSIVE ClientClose(_, _)

\* lines 61-63 with the sub-server's error let through to line 71
SubServerFailed_aborts(h, id, i, all_tools, err) ==
    [h |-> h, tools |-> all_tools, raised |-> err]

\* lines 61-63: a sub-server that fails is reported and skipped
SubServerFailed(h, id, i, all_tools, err) ==
    MultiConnectLoop(h, id, i + 1, all_tools)

\* lines 56-57 with the client not kept in sub_clients
SubServerConnected_notKept(h, id, i, sub, tools, all_tools) ==
    MultiConnectLoop(h, id, i + 1, all_tools \o tools)

\* lines 56-59: the connected client is kept under its name
SubServerConnected(h, id, i, sub, tools, all_tools) ==
    MultiConnectLoop(
        [h EXCEPT !.clients[id].sub_clients =
                      DictSet(@, h.clients[sub].server_name, sub)],
        id, i + 1, all_tools \o tools)

\* lines 37-63: the for loop over self.servers, from index i
MultiConnectLoop(h, id, i, all_tools) ==
    IF i > Len(h.clients[id].servers)
    THEN [h |-> h, tools |-> all_tools, raised |-> "None"]
    ELSE LET server_config   == h.clients[id].servers[i]
             sub_server_name == Get(server_config, "name", "")
         IN  IF sub_server_name = ""
             THEN MultiConnectLoop(h, id, i + 1, all_tools)
             ELSE With(create_mcp_client(h, sub_server_name, server_config), LAMBDA made :
                    IF made.raised # "None"
                    THEN SubServerFailed(made.h, id, i, all_tools, made.raised)
                    ELSE With(IF HasRetry(made.h.clients[made.id])
                              THEN connect_with_retry(OwnedBy(made.h, made.id, id), made.id)
                              ELSE MultiConnect(OwnedBy(made.h, made.id, id), made.id),
                              LAMBDA conn :
                           IF conn.raised # "None"
                           THEN SubServerFailed(conn.h, id, i, all_tools, conn.raised)
                           ELSE SubServerConnected(conn.h, id, i, made.id,
                                                   conn.tools, all_tools)))

\* lines 29-74: connect()
MultiConnect(h, id) ==
    With(MultiConnectLoop(h, id, 1, <<>>), LAMBDA r :
        IF r.raised # "None"
        THEN [h |-> Logged(ClientClose(r.h, id).h, "connect", id, 0),
              raised |-> r.raised, tools |-> <<>>]
        ELSE [h |-> Logged([r.h EXCEPT
                              !.clients[id].tools = r.tools,
                              !.clients[id].is_connected =
                                  Len(r.h.clients[id].sub_clients) > 0],
                           "connect", id, 1),
              raised |-> "None", tools |-> r.tools])

RECURSIVE MultiCloseLoop(_, _, _)
\* lines 78-83: close() of each client in sub_clients; its Exception is caught
MultiCloseLoop(h, subs, i) ==
    IF i > Len(subs) THEN h
    ELSE MultiCloseLoop(ClientClose(h, subs[i].val).h, subs, i + 1)

\* lines 76-87: close()
MultiClose(h, id) ==
    [h |-> Logged([MultiCloseLoop(h, h.clients[id].sub_clients, 1)
                      EXCEPT !.clients[id].sub_clients = <<>>,
                             !.clients[id].is_connected = FALSE,
                             !.clients[id].session = 0],
                  "close", id, 0),
     raised |-> "None"]

\* client.close(), by class
ClientClose(h, id) ==
    IF h.clients[id].cls = "multi" THEN MultiClose(h, id) ELSE TransportClose(h, id)

\* loader.py 385-388, multi_server_client.py 51-54, dynamic_manager.py 174-177:
\* connect_with_retry() when the client has it, else connect()
ConnectClient(h, id) ==
    IF HasRetry(h.clients[id]) THEN connect_with_retry(h, id) ELSE MultiConnect(h, id)

\* the number of transport clients a connect of this config creates
RECURSIVE Leaves(_)
RECURSIVE LeavesOfList(_, _)
LeavesOfList(items, i) ==
    IF i > Len(items) THEN 0 ELSE Leaves(items[i]) + LeavesOfList(items, i + 1)
Leaves(config) ==
    IF ClientClass(config) = "multi"
    THEN IF Has(config, "servers") THEN LeavesOfList(config.servers.items, 1) ELSE 0
    ELSE 1

\* a server that answers, one that fails the first connect() only, one that
\* fails every connect() of the longest retry policy
Outcomes ==
    {Outcome(0, "open")}
      \cup {Outcome(n, st) : n \in {1, DefaultMaxAttempts}, st \in FailStages}

\* the behaviours of the servers during one operation that connects n clients
Envs(n) ==
    {[outs |-> o, exitErr |-> x, factor |-> f] :
        o \in [1..n -> Outcomes], x \in BOOLEAN, f \in {4}}

WithEnv(h, env) == [h EXCEPT !.env = env, !.pos = 0]
NoEnv == [outs |-> <<>>, exitErr |-> FALSE, factor |-> 4]
Settled(h) == [h EXCEPT !.env = NoEnv, !.pos = 0]

\* the number of __aexit__ calls made so far
RECURSIVE SumExits(_, _)
SumExits(ctxs, i) == IF i > Len(ctxs) THEN 0 ELSE ctxs[i].exits + SumExits(ctxs, i + 1)

(***************************************************************************)
(* A client used on its own: built by create_mcp_client, connected at most *)
(* once (every caller in the repository connects a client once after it    *)
(* built it) and closed any number of times, before or after.              *)
(***************************************************************************)
Retries(n) == "retry_attempts" :> n

StdioOk == [type |-> "stdio", command |-> "echo", args |-> ArgsList]
SseOk   == [type |-> "sse", url |-> <<"https://", "host">>]
HttpOk  == [type |-> "streamable_http", url |-> <<"http://", "host">>]
WsOk    == [type |-> "websocket", url |-> <<"wss://", "host">>]
WsNoUrl == [type |-> "websocket"]

\* entries of a multi client's servers list
SubServerPool ==
    { [name |-> "a"] @@ StdioOk @@ Retries(2),
      [name |-> "a"] @@ SseOk @@ Retries(1),
      [name |-> "b"] @@ WsNoUrl @@ Retries(2),
      [name |-> "c", type |-> "grpc"],
      StdioOk @@ Retries(1),
      [name |-> "m", type |-> "multi",
       servers |-> [islist |-> TRUE,
                    items |-> << [name |-> "a"] @@ WsOk @@ Retries(1) >>]] }

MaxSubServers == 2

SubServerLists == UNION {[1..n -> SubServerPool] : n \in 0..MaxSubServers}

MultiConfigs ==
    {[type |-> "multi", servers |-> [islist |-> TRUE, items |-> l]] : l \in SubServerLists}

TransportConfigs ==
    { StdioOk, StdioOk @@ Retries(1), StdioOk @@ Retries(0),
      [type |-> "stdio", args |-> ArgsList],
      SseOk @@ Retries(2) @@ [retry_exponential_base |-> 3, retry_jitter |-> FALSE],
      [type |-> "sse"],
      HttpOk @@ Retries(2), HttpOk @@ Retries(1),
      WsOk @@ Retries(2), WsNoUrl @@ Retries(2),
      [type |-> "websocket", url |-> <<"http://", "host">>] @@ Retries(2) }

ClientConfigs == TransportConfigs \cup MultiConfigs

MaxOps == 3

Op(op, raised, exits, connected) ==
    [op |-> op, raised |-> raised, exits |-> exits, connected |-> connected]

InitClient ==
    /\ \E config \in ClientConfigs :
          heap = Settled(create_mcp_client(EmptyHeap, "srv", config).h)
    /\ ops = <<>>

\* the client under test is the first one created
TopClient == CHOOSE id \in DOMAIN heap.clients : heap.clients[id].owner = 0

\* await client.connect_with_retry(), or client.connect() on a multi client
DoConnect ==
    /\ Len(ops) < MaxOps
    /\ \A i \in DOMAIN ops : ops[i].op # "connect"
    /\ \E env \in Envs(Leaves(heap.clients[TopClient].config)) :
          \E r \in {ConnectClient(WithEnv(heap, env), TopClient)} :
              /\ heap' = Settled(r.h)
              /\ ops' = Append(ops, Op("connect", r.raised, 0,
                                       r.h.clients[TopClient].is_connected))
    /\ UNCHANGED <<varsValidate, varsRetry, varsLoader, varsInvoke, varsSchema, varsManager>>

\* await client.close()
DoClose ==
    /\ Len(ops) < MaxOps
    /\ \E env \in Envs(0) :
          \E r \in {ClientClose(WithEnv(heap, env), TopClient)} :
              /\ heap' = Settled(r.h)
              /\ ops' = Append(ops, Op("close", r.raised,
                                       SumExits(r.h.ctxs, 1) - SumExits(heap.ctxs, 1),
                                       r.h.clients[TopClient].is_connected))
    /\ UNCHANGED <<varsValidate, varsRetry, varsLoader, varsInvoke, varsSchema, varsManager>>

(***************************************************************************)
(* src/src/tools/registry.py: what discovery found                         *)
(***************************************************************************)
\* config/mcp_servers when the registry scans it: the descriptor <name>.json
\* by name
ServersDir ==
    ("ext" :> SseOk) @@ ("both" :> SseOk) @@ ("gone" :> SseOk)
      @@ ("off" :> ([enabled |-> FALSE] @@ SseOk))

\* str(file_path) of the descriptor of server_name
JsonPath(server_name) == <<server_name, ".json">>

\* _register_external_server without the test of lines 198-200
_register_external_server_ignoresEnabled(server_name, config) ==
    server_name :> [config_path |-> JsonPath(server_name)]

\* registry.py 187-217: what _register_external_server adds to
\* self._external_servers for one descriptor
_register_external_server(server_name, config) ==
    IF ~Get(config, "enabled", TRUE) THEN EmptyDict
    ELSE server_name :> [config_path |-> JsonPath(server_name)]

\* registry.py 168-185: _discover_external_servers
_discover_external_servers ==
    LET registered ==
           {n \in DOMAIN ServersDir :
               DOMAIN _register_external_server(n, ServersDir[n]) # {}}
    IN  [n \in registered |-> _register_external_server(n, ServersDir[n])[n]]

\* internal tools by name, with whether the class at class_path imports;
\* external servers by name, with the path of their JSON file
Registry ==
    [internal |-> ("a" :> [class_path |-> "tools.a", importable |-> TRUE])
                  @@ ("b" :> [class_path |-> "tools.b", importable |-> FALSE])
                  @@ ("both" :> [class_path |-> "tools.both", importable |-> TRUE]),
     external |-> _discover_external_servers]

\* the JSON files that can be opened when the tools are loaded, with the
\* config they hold: gone.json has been removed since the scan
Files ==
    [path \in {JsonPath(n) : n \in DOMAIN ServersDir \ {"gone"}} |-> ServersDir[path[1]]]

\* registry.py 231-267: get_all_tools()[tool_name]["providers"]; <<>> for None
Providers(tool_name) ==
    (IF tool_name \in DOMAIN Registry.internal THEN <<"internal_mcp">> ELSE <<>>)
      \o (IF tool_name \in DOMAIN Registry.external THEN <<"mcp_client">> ELSE <<>>)

(***************************************************************************)
(* src/src/tools/loader.py: ToolLoader                                     *)
(*                                                                         *)
(* A call of a _load_* method gives [h, mcp_clients, tools, raised]: the   *)
(* heap and self.mcp_clients after it, the list it returned, and the       *)
(* exception it let through ("None": it returned).                         *)
(***************************************************************************)
Loaded(h, mcp_clients, tools, raised) ==
    [h |-> h, mcp_clients |-> mcp_clients, tools |-> tools, raised |-> raised]

\* _select_provider with the two tests of lines 290-293 in the other order
_select_provider_externalFirst(tool_name) ==
    IF Providers(tool_name) = <<>> THEN "internal_mcp"
    ELSE IF "mcp_client" \in Range(Providers(tool_name)) THEN "mcp_client"
    ELSE IF "internal_mcp" \in Range(Providers(tool_name)) THEN "internal_mcp"
    ELSE "internal_mcp"

\* lines 270-296: _select_provider
_select_provider(tool_name) ==
    IF Providers(tool_name) = <<>> THEN "internal_mcp"
    ELSE IF "internal_mcp" \in Range(Providers(tool_name)) THEN "internal_mcp"
    ELSE IF "mcp_client" \in Range(Providers(tool_name)) THEN "mcp_client"
    ELSE "internal_mcp"

\* lines 298-327 and 436-447: _load_internal_mcp_tool of a single-class tool;
\* an import error is caught in _import_and_instantiate
_load_internal_mcp_tool(h, mcp_clients, tool_name) ==
    IF tool_name \notin DOMAIN Registry.internal
    THEN Loaded(h, mcp_clients, <<>>, "None")
    ELSE IF ~Registry.internal[tool_name].importable
    THEN Loaded(Logged(h, "import_failed", 0, 0), mcp_clients, <<>>, "None")
    ELSE Loaded(h, mcp_clients, << [name |-> <<tool_name>>, conn |-> 0] >>, "None")

\* the global settings written over the keys of the config
WithGlobalSettings_overwrites(doc, mcp_config) ==
    Get(doc, "global_mcp_settings", EmptyDict) @@ mcp_config

\* lines 365-369: the global settings fill the keys the config does not have
WithGlobalSettings(doc, mcp_config) ==
    mcp_config @@ Get(doc, "global_mcp_settings", EmptyDict)

\* lines 380-400: build the client, connect it, keep it under tool_name
ConnectAndKeep(h, mcp_clients, tool_name, mcp_config) ==
    With(create_mcp_client(h, tool_name, mcp_config), LAMBDA made :
      IF made.raised # "None" THEN Loaded(made.h, mcp_clients, <<>>, "None")
      ELSE With(ConnectClient(made.h, made.id), LAMBDA conn :
             IF conn.raised # "None" THEN Loaded(conn.h, mcp_clients, <<>>, "None")
             ELSE Loaded(conn.h, DictSet(mcp_clients, tool_name, made.id),
                         conn.tools, "None")))

\* lines 371-400: validate_config, then the client
ValidateAndConnect(h, mcp_clients, tool_name, mcp_config) ==
    IF ~validate_config(mcp_config).ok
    THEN Loaded([h EXCEPT !.validated = @ \cup {mcp_config}], mcp_clients, <<>>, "None")
    ELSE ConnectAndKeep([h EXCEPT !.validated = @ \cup {mcp_config}],
                        mcp_clients, tool_name, mcp_config)

\* lines 329-400: _load_mcp_client_tool
_load_mcp_client_tool(h, mcp_clients, doc, tool_name, config) ==
    LET tool_overrides  == Get(doc, "tool_overrides", EmptyDict)
        override_config == Get(tool_overrides, tool_name, EmptyDict)
        mcp_config_file == IF Get(config, "mcp_config_file", "") # ""
                           THEN config.mcp_config_file
                           ELSE Get(override_config, "mcp_config_file", "")
        inline          == IF DOMAIN Get(override_config, "mcp_config", EmptyDict) # {}
                           THEN override_config.mcp_config
                           ELSE Get(config, "mcp_config", EmptyDict)
    IN  IF mcp_config_file # ""
        THEN IF mcp_config_file \notin DOMAIN Registry.external
             THEN Loaded(h, mcp_clients, <<>>, "None")
             ELSE IF Registry.external[mcp_config_file].config_path \notin DOMAIN Files
             THEN Loaded(h, mcp_clients, <<>>, "FileNotFoundError")
             ELSE ValidateAndConnect(h, mcp_clients, tool_name,
                      WithGlobalSettings(doc,
                          Files[Registry.external[mcp_config_file].config_path]))
        ELSE IF DOMAIN inline = {}
             THEN Loaded(h, mcp_clients, <<>>, "None")
             ELSE ValidateAndConnect(h, mcp_clients, tool_name,
                                     WithGlobalSettings(doc, inline))

\* _load_multi_server with client.connect() called again when the first
\* call brought no tool
_load_multi_server_retried(h, mcp_clients, suite_name, config) ==
    LET multi_config ==
            [type |-> "multi",
             servers |-> [islist |-> TRUE,
                          items |-> Get(config, "servers",
                                        [islist |-> TRUE, items |-> <<>>]).items]]
    IN  With(create_mcp_client(h, suite_name, multi_config), LAMBDA made :
          IF made.raised # "None" THEN Loaded(made.h, mcp_clients, <<>>, "None")
          ELSE With(MultiConnect(made.h, made.id), LAMBDA first :
                 With(IF first.tools = <<>>
                      THEN MultiConnect([first.h EXCEPT !.pos = 0], made.id)
                      ELSE first, LAMBDA conn :
                   IF conn.raised # "None" THEN Loaded(conn.h, mcp_clients, <<>>, "None")
                   ELSE Loaded(conn.h, DictSet(mcp_clients, suite_name, made.id),
                               conn.tools, "None"))))

\* lines 408-434: _load_multi_server
_load_multi_server(h, mcp_clients, suite_name, config) ==
    LET multi_config ==
            [type |-> "multi",
             servers |-> [islist |-> TRUE,
                          items |-> Get(config, "servers",
                                        [islist |-> TRUE, items |-> <<>>]).items]]
    IN  With(create_mcp_client(h, suite_name, multi_config), LAMBDA made :
          IF made.raised # "None" THEN Loaded(made.h, mcp_clients, <<>>, "None")
          ELSE With(MultiConnect(made.h, made.id), LAMBDA conn :
                 IF conn.raised # "None" THEN Loaded(conn.h, mcp_clients, <<>>, "None")
                 ELSE Loaded(conn.h, DictSet(mcp_clients, suite_name, made.id),
                             conn.tools, "None")))

\* lines 164-191: the provider of an entry and the _load_* call it leads to
LoadByProvider(h, mcp_clients, doc, tool_name, tool_config) ==
    LET named    == Get(tool_config, "provider", Get(tool_config, "mode", "auto"))
        provider == IF named = "auto" THEN _select_provider(tool_name) ELSE named
    IN  CASE provider = "internal_mcp" -> _load_internal_mcp_tool(h, mcp_clients, tool_name)
          [] provider = "mcp_client" ->
                _load_mcp_client_tool(h, mcp_clients, doc, tool_name, tool_config)
          [] OTHER -> Loaded(h, mcp_clients, <<>>, "None")

\* what the loader did with one entry: its section and name, whether its
\* _load_* call raised, and the tools it added
Attempt(section, name, raised, tools) ==
    [section |-> section, name |-> name, raised |-> raised, tools |-> tools]

\* an entry's load with the exception let out of _load_tools_async
EntryLoaded_uncaught(l, section, name, r) ==
    IF r.raised # "None"
    THEN [l EXCEPT !.pc = "done", !.raised = r.raised,
                   !.mcp_clients = r.mcp_clients,
                   !.attempted = Append(@, Attempt(section, name, r.raised, <<>>))]
    ELSE [l EXCEPT !.i = @ + 1, !.mcp_clients = r.mcp_clients,
                   !.tools = @ \o r.tools,
                   !.attempted = Append(@, Attempt(section, name, "None", r.tools))]

\* lines 166-197 and 205-209: the tools are added; an Exception is logged
\* and the loop goes on
EntryLoaded(l, section, name, r) ==
    [l EXCEPT !.i = @ + 1, !.mcp_clients = r.mcp_clients,
              !.tools = @ \o (IF r.raised = "None" THEN r.tools ELSE <<>>),
              !.attempted = Append(@, Attempt(section, name, r.raised,
                                       IF r.raised = "None" THEN r.tools ELSE <<>>))]

\* lines 449-461: cleanup closes each client of self.mcp_clients
RECURSIVE CleanupLoop(_, _, _)
CleanupLoop(h, mcp_clients, i) ==
    IF i > Len(mcp_clients) THEN h
    ELSE CleanupLoop(ClientClose(h, mcp_clients[i].val).h, mcp_clients, i + 1)

(***************************************************************************)
(* The composition documents that are loaded                               *)
(***************************************************************************)
Entry(name, config) == [name |-> name, config |-> config]
Servers(items) == [islist |-> TRUE, items |-> items]
McpClient(mcp_config) == [provider |-> "mcp_client", mcp_config |-> mcp_config]

\* entries of the `tools` section: internal tools that import or not, inline
\* configs that connect, are disabled, are rejected by validate_config,
\* descriptors that are disabled, unreadable or fine, providers left to auto,
\* a multi config
ToolEntryPool ==
    { Entry("a", [provider |-> "internal_mcp"]),
      Entry("b", [provider |-> "internal_mcp"]),
      Entry("c", McpClient(SseOk @@ Retries(1))),
      Entry("c", [enabled |-> FALSE] @@ McpClient(SseOk)),
      Entry("d", McpClient(WsNoUrl)),
      Entry("f", [provider |-> "mcp_client", mcp_config_file |-> "gone"]),
      Entry("ext", [mode |-> "auto", mcp_config_file |-> "ext"]),
      Entry("a", EmptyDict),
      Entry("both", [mcp_config_file |-> "both"]),
      Entry("off", [provider |-> "mcp_client", mcp_config_file |-> "off"]),
      Entry("m", McpClient([type |-> "multi",
                            servers |-> Servers(<< [name |-> "x"] @@ StdioOk
                                                     @@ Retries(2) >>)])) }

\* suites of the `multi_servers` section
SuitePool ==
    { Entry("s", [enabled |-> TRUE,
                  servers |-> Servers(<< [name |-> "x"] @@ StdioOk @@ Retries(1) >>)]),
      Entry("c", [enabled |-> TRUE,
                  servers |-> Servers(<< [name |-> "y"] @@ SseOk @@ Retries(1) >>)]),
      Entry("s", [enabled |-> TRUE,
                  servers |-> Servers(<< [name |-> "b"] @@ WsNoUrl @@ Retries(2),
                                         [name |-> "z", type |-> "grpc"] >>)]),
      Entry("t", [servers |-> Servers(<< [name |-> "x"] @@ StdioOk >>)]) }

MaxTools == 2
MaxSuites == 1

\* the sequences of at most n entries of pool with distinct names (a YAML
\* mapping has each key once)
Sections(pool, n) ==
    {s \in UNION {[1..k -> pool] : k \in 0..n} :
        \A i, j \in DOMAIN s : i # j => s[i].name # s[j].name}

Documents ==
    {[tools |-> t, multi_servers |-> m,
      global_mcp_settings |-> [retry_attempts |-> 2]] :
        t \in Sections(ToolEntryPool, MaxTools), m \in Sections(SuitePool, MaxSuites)}

\* lines 36-39: the loader after __init__
NewLoader ==
    [pc |-> "idle", i |-> 0, tools |-> <<>>, loaded_tools |-> <<>>,
     mcp_clients |-> <<>>, attempted |-> <<>>, raised |-> "None", cleanups |-> 0,
     loads |-> 0]

InitLoader ==
    /\ document \in Documents
    /\ loader = NewLoader
    /\ heap = EmptyHeap

\* servers that answer, fail the first connect() only, or fail every one
LoaderOutcomes ==
    {Outcome(0, "open"), Outcome(1, "session"), Outcome(DefaultMaxAttempts, "initialize")}

LoaderEnvs(n, errs) ==
    {[outs |-> o, exitErr |-> x, factor |-> 4] : o \in [1..n -> LoaderOutcomes], x \in errs}

\* the transport clients the load of an entry can create
EntryLeaves(config) ==
    IF Has(config, "servers") THEN LeavesOfList(config.servers.items, 1)
    ELSE IF Has(config, "mcp_config") THEN Leaves(config.mcp_config)
    ELSE 1

\* the runs of _load_tools_async on one loader, and the entries of the
\* documents for which a run after the first is followed
MaxLoads == 2
MaxReloadEntries == 1

\* lines 94-95, 152-156: get_tools() starts _load_tools_async unless
\* self.loaded_tools is a non-empty list, be it the first call or a later
\* one; attempted keeps the entries of the run that was started last
GetTools ==
    /\ loader.pc \in {"idle", "done"}
    /\ loader.loaded_tools = <<>>
    /\ loader.loads < MaxLoads
    /\ \/ loader.loads = 0
       \/ Len(document.tools) + Len(document.multi_servers) <= MaxReloadEntries
    /\ loader' = [loader EXCEPT !.pc = "tools", !.i = 1, !.tools = <<>>,
                                !.attempted = <<>>, !.loads = @ + 1]
    /\ UNCHANGED <<document, heap, ops, varsValidate, varsRetry, varsInvoke, varsSchema, varsManager>>

\* lines 158-197: one iteration of the loop over the `tools` section
LoadToolEntry ==
    /\ loader.pc = "tools"
    /\ loader.i <= Len(document.tools)
    /\ LET tool_name   == document.tools[loader.i].name
           tool_config == document.tools[loader.i].config
       IN  IF ~Get(tool_config, "enabled", TRUE)
           THEN /\ loader' = [loader EXCEPT !.i = @ + 1]
                /\ UNCHANGED heap
           ELSE \E env \in LoaderEnvs(EntryLeaves(tool_config), {FALSE}) :
                  \E r \in {LoadByProvider(WithEnv(heap, env), loader.mcp_clients,
                                           document, tool_name, tool_config)} :
                     /\ loader' = EntryLoaded(loader, "tools", tool_name, r)
                     /\ heap' = Settled(r.h)
    /\ UNCHANGED <<document, ops, varsValidate, varsRetry, varsInvoke, varsSchema, varsManager>>

\* lines 199-201: the `tools` section is done, the suites follow
LoadSuitesStart ==
    /\ loader.pc = "tools"
    /\ loader.i > Len(document.tools)
    /\ loader' = [loader EXCEPT !.pc = "suites", !.i = 1]
    /\ UNCHANGED <<document, heap, ops, varsValidate, varsRetry, varsInvoke, varsSchema, varsManager>>

\* lines 201-209: one iteration of the loop over the `multi_servers` section
LoadSuite ==
    /\ loader.pc = "suites"
    /\ loader.i <= Len(document.multi_servers)
    /\ LET suite_name   == document.multi_servers[loader.i].name
           suite_config == document.multi_servers[loader.i].config
       IN  IF ~Get(suite_config, "enabled", FALSE)
           THEN /\ loader' = [loader EXCEPT !.i = @ + 1]
                /\ UNCHANGED heap
           ELSE \E env \in LoaderEnvs(EntryLeaves(suite_config), {FALSE}) :
                  \E r \in {_load_multi_server(WithEnv(heap, env), loader.mcp_clients,
                                               suite_name, suite_config)} :
                     /\ loader' = EntryLoaded(loader, "multi_servers", suite_name, r)
                     /\ heap' = Settled(r.h)
    /\ UNCHANGED <<document, ops, varsValidate, varsRetry, varsInvoke, varsSchema, varsManager>>

\* lines 211-212, 132-148: _load_tools_async returns, get_tools keeps the list
LoadFinish ==
    /\ loader.pc = "suites"
    /\ loader.i > Len(document.multi_servers)
    /\ loader' = [loader EXCEPT !.pc = "done", !.loaded_tools = loader.tools]
    /\ UNCHANGED <<document, heap, ops, varsValidate, varsRetry, varsInvoke, varsSchema, varsManager>>

MaxCleanups == 1

\* lines 449-461: cleanup() once the tools were loaded (before that
\* self.mcp_clients is empty and the loop of line 453 has nothing to close)
Cleanup ==
    /\ loader.pc = "done"
    /\ loader.cleanups < MaxCleanups
    /\ \E env \in LoaderEnvs(0, BOOLEAN) :
          heap' = Logged(Settled(CleanupLoop(WithEnv(heap, env), loader.mcp_clients, 1)),
                         "cleanup", 0, 0)
    /\ loader' = [loader EXCEPT !.mcp_clients = <<>>, !.cleanups = @ + 1]
    /\ UNCHANGED <<document, ops, varsValidate, varsRetry, varsInvoke, varsSchema, varsManager>>

(***************************************************************************)
(* Tool invocation: tool_wrapper.py 10-44, improved_adapter.py 190-211,    *)
(* src/mcp_integration/tools/base.py 162-189                               *)
(*                                                                         *)
(* The implementation of a tool (execute(), or the coroutine that calls    *)
(* the remote server) is given by what each of its executions does:        *)
(* [ok |-> TRUE] or [ok |-> FALSE, err |-> class].  A call gives           *)
(* [executions, status, value, error].                                     *)
(***************************************************************************)
Returned(executions, value) ==
    [executions |-> executions, status |-> "returned", value |-> value, error |-> "None"]
Raised(executions, err) ==
    [executions |-> executions, status |-> "raised", value |-> <<>>, error |-> err]

\* the string a successful execution returns
ResultText == [text |-> "result"]

\* tools/base.py 162-178: tool_wrapper of MCPTool.to_langchain_tool
tool_wrapper(tool, outcomes) ==
    IF outcomes[1].ok THEN Returned(1, ResultText)
    ELSE Returned(1, [error |-> outcomes[1].err, type |-> outcomes[1].err,
                      tool |-> tool.name])

\* improved_adapter.py 190-211: tool_func of ImprovedMCPTool
tool_func(tool, outcomes) ==
    IF outcomes[1].ok THEN Returned(1, ResultText)
    ELSE Returned(1, [error |-> outcomes[1].err, error_type |-> outcomes[1].err,
                      tool |-> tool.name, traceback |-> "None"])

\* await original_coroutine(**kwargs), for the k-th time
RunCoroutine(outcomes, k) ==
    IF outcomes[k].ok THEN Returned(k, ResultText) ELSE Raised(k, outcomes[k].err)

\* tool_wrapper.py 28-38: sync_wrapper.  With a running loop the coroutine
\* runs inside the try; a RuntimeError it raises is taken for "no running
\* loop" and asyncio.run, patched by nest_asyncio.apply(), runs a second
\* coroutine
sync_wrapper(tool, loop_running, outcomes) ==
    IF loop_running
    THEN IF ~outcomes[1].ok /\ "RuntimeError" \in Supers(outcomes[1].err)
         THEN RunCoroutine(outcomes, 2)
         ELSE RunCoroutine(outcomes, 1)
    ELSE RunCoroutine(outcomes, 1)

\* StructuredTool as the three places build it (tools/base.py 181-187,
\* improved_adapter.py 78-86, tool_wrapper.py 41-42): the arguments are
\* checked against args_schema first and a ValidationError is raised, no
\* handle_validation_error or handle_tool_error being given; the sync entry
\* point calls func; the async one awaits the coroutine, or calls func when
\* there is none
StructuredToolInvoke(in) ==
    IF in.tool.has_args_schema /\ ~in.args_ok THEN Raised(0, "ValidationError")
    ELSE CASE in.tool.kind = "internal" -> tool_wrapper(in.tool, in.outcomes)
           [] in.tool.kind = "improved" -> tool_func(in.tool, in.outcomes)
           [] in.tool.kind = "remote" /\ in.entry = "sync" ->
                 sync_wrapper(in.tool, in.loop_running, in.outcomes)
           [] OTHER -> RunCoroutine(in.outcomes, 1)

(***************************************************************************)
(* The invocations that are checked                                        *)
(***************************************************************************)
\* a tool built by MCPTool.to_langchain_tool, by ImprovedMCPTool, and one
\* discovered from a remote server and wrapped by wrap_tools_list; the
\* remote server checks the arguments itself
HandedOutTools ==
    { [kind |-> "internal", name |-> "a", has_args_schema |-> TRUE],
      [kind |-> "improved", name |-> "i", has_args_schema |-> TRUE],
      [kind |-> "remote", name |-> "c_t1", has_args_schema |-> FALSE] }

ExecutionOutcomes ==
    {[ok |-> TRUE, err |-> "None"]}
      \cup {[ok |-> FALSE, err |-> c] :
               c \in {"ValueError", "RuntimeError", "ToolException", "TimeoutError"}}

Invocations ==
    {[tool |-> t, entry |-> e, loop_running |-> l, args_ok |-> a, outcomes |-> o] :
        t \in HandedOutTools, e \in {"sync", "async"}, l \in BOOLEAN, a \in BOOLEAN,
        o \in [1..2 -> ExecutionOutcomes]}

NotInvoked == [executions |-> 0, status |-> "idle", value |-> <<>>, error |-> "None"]

InitInvoke ==
    /\ iIn \in {in \in Invocations : in.entry = "async" => in.loop_running}
    /\ iOut = NotInvoked

\* tool.invoke(args) or await tool.ainvoke(args)
Invoke ==
    /\ iOut = NotInvoked
    /\ iOut' = StructuredToolInvoke(iIn)
    /\ UNCHANGED <<iIn, varsValidate, varsRetry, varsClient, varsLoader, varsSchema, varsManager>>

(***************************************************************************)
(* Schema translation: src/mcp_integration/tools/base.py 61-202,           *)
(* improved_adapter.py 114-188                                             *)
(*                                                                         *)
(* A Python value is [py |-> its type, repr |-> its repr()].  A property   *)
(* schema is a dict with the optional keys type, enum and default.         *)
(***************************************************************************)
V(py, repr) == [py |-> py, repr |-> repr]
None == V("NoneType", "None")

\* bool(value)
Truthy(value) == value.repr \notin {"''", "0", "0.0", "False", "[]", "{}", "None"}
\* bool(enum_values): None, which is read here as the empty list, and []
\* are both false
NoEnum == <<>>
TruthyList(list) == Len(list) > 0

\* tools/base.py 191-202
_get_default_value(json_type) ==
    CASE json_type = "string"  -> V("str", "''")
      [] json_type = "integer" -> V("int", "0")
      [] json_type = "number"  -> V("float", "0.0")
      [] json_type = "boolean" -> V("bool", "False")
      [] json_type = "array"   -> V("list", "[]")
      [] json_type = "object"  -> V("dict", "{}")
      [] OTHER                 -> None

\* improved_adapter.py 177-188
_get_default_for_type(json_type) ==
    CASE json_type = "string"  -> V("str", "''")
      [] json_type = "integer" -> V("int", "0")
      [] json_type = "number"  -> V("float", "0.0")
      [] json_type = "boolean" -> V("bool", "False")
      [] json_type = "array"   -> V("list", "[]")
      [] json_type = "object"  -> V("dict", "{}")
      [] json_type = "null"    -> None
      [] OTHER                 -> None

\* Field(...) of a required field, and Field(default=..., ...) of an optional one
RequiredField(enum_values) ==
    [has_default |-> FALSE, default |-> None,
     enum |-> enum_values]
OptionalField(default, enum_values) ==
    [has_default |-> TRUE, default |-> default,
     enum |-> enum_values]

\* tools/base.py 76-147: the field MCPTool.to_langchain_tool builds for one
\* property; the schema's own "default" is not read
to_langchain_tool_field(prop_schema, required) ==
    LET json_type   == Get(prop_schema, "type", "string")
        enum_values == Get(prop_schema, "enum", NoEnum)
    IN  IF required THEN RequiredField(enum_values)
        ELSE OptionalField(_get_default_value(json_type), enum_values)

\* client/tool_builder.py 78-98: the field _build_input_model builds for one
\* property, with the defaults of _get_default_value (138-148), the table of
\* tools/base.py; neither "enum" nor "default" is read
_build_input_model_field(prop_schema, required) ==
    LET json_type == Get(prop_schema, "type", "string")
    IN  IF required THEN RequiredField(NoEnum)
        ELSE OptionalField(_get_default_value(json_type), NoEnum)

\* _schema_field_to_pydantic with Field(default=default, ...) for a required
\* property too
_schema_field_to_pydantic_defaultsRequired(prop_schema, required) ==
    LET json_type   == Get(prop_schema, "type", "string")
        default     == Get(prop_schema, "default", _get_default_for_type(json_type))
        enum_values == Get(prop_schema, "enum", NoEnum)
    IN  IF required /\ ~Has(prop_schema, "default") THEN RequiredField(enum_values)
        ELSE IF TruthyList(enum_values) /\ ~required
             THEN OptionalField(IF Truthy(default) THEN default ELSE enum_values[1],
                                enum_values)
             ELSE OptionalField(default, enum_values)

\* improved_adapter.py 130-175
_schema_field_to_pydantic(prop_schema, required) ==
    LET json_type   == Get(prop_schema, "type", "string")
        default     == Get(prop_schema, "default", _get_default_for_type(json_type))
        enum_values == Get(prop_schema, "enum", NoEnum)
    IN  IF required THEN RequiredField(enum_values)
        ELSE IF TruthyList(enum_values)
             THEN OptionalField(IF Truthy(default) THEN default ELSE enum_values[1],
                                enum_values)
             ELSE OptionalField(default, enum_values)

\* the translators
Translators == {"MCPTool", "ImprovedMCPTool", "tool_builder"}
TranslateField(translator, prop_schema, required) ==
    IF translator = "MCPTool" THEN to_langchain_tool_field(prop_schema, required)
    ELSE IF translator = "tool_builder" THEN _build_input_model_field(prop_schema, required)
    ELSE _schema_field_to_pydantic(prop_schema, required)

\* args_schema() with the argument left out: the field's default, which is
\* not validated, or a ValidationError for a field without one
InvokedWithout(field) ==
    IF field.has_default THEN [status |-> "value", value |-> field.default]
    ELSE [status |-> "ValidationError", value |-> None]

(***************************************************************************)
(* The property schemas that are checked                                   *)
(***************************************************************************)
JsonTypes == {"string", "integer", "number", "boolean", "array", "object"}
\* a member of an enum of the type that is not the type's generic default
Member(json_type) ==
    CASE json_type = "integer" -> V("int", "2")
      [] json_type = "number"  -> V("float", "1.5")
      [] json_type = "boolean" -> V("bool", "True")
      [] json_type = "array"   -> V("list", "['low']")
      [] json_type = "object"  -> V("dict", "{'k': 1}")
      [] OTHER                 -> V("str", "'low'")
OtherMember == V("str", "'high'")

EnumsOf(json_type) ==
    {<<>>, <<Member(json_type), OtherMember>>,
     <<_get_default_for_type(json_type), Member(json_type)>>,
     <<Member(json_type), _get_default_for_type(json_type)>>}

PropSchemas ==
    UNION {
      {t @@ e @@ d :
         t \in Absent \cup {"type" :> json_type},
         e \in Absent \cup {"enum" :> x : x \in EnumsOf(json_type)},
         d \in Absent \cup {"default" :> x :
                               x \in {_get_default_for_type(json_type), Member(json_type)}}}
      : json_type \in JsonTypes \cup {"null", "date"} }

NotTranslated == [status |-> "idle"]

InitSchema ==
    /\ sIn \in {[translator |-> t, prop_schema |-> p, required |-> r] :
                  t \in Translators, p \in PropSchemas, r \in BOOLEAN}
    /\ sOut = NotTranslated

\* build the field and call the tool without the argument
Translate ==
    /\ sOut = NotTranslated
    /\ \E field \in {TranslateField(sIn.translator, sIn.prop_schema, sIn.required)} :
          sOut' = [status |-> "done", field |-> field, call |-> InvokedWithout(field)]
    /\ UNCHANGED <<sIn, varsValidate, varsRetry, varsClient, varsLoader, varsInvoke, varsManager>>

(***************************************************************************)
(* src/src/mcp_integration/dynamic_manager.py: DynamicMCPManager           *)
(***************************************************************************)
\* retry.py 15-37: RetryConfig()
DefaultRetryConfig ==
    RetryConfig(DefaultMaxAttempts, DefaultBaseDelay, DefaultMaxDelay,
                DefaultExponentialBase, TRUE)

\* the manager before it is constructed
NoManager ==
    [servers |-> EmptyDict, discovered_servers |-> <<>>, clients |-> <<>>,
     loaded_tools |-> <<>>, retry_config |-> NoRetryConfig, discovered |-> FALSE]

\* lines 40-70: __init__; given is FALSE when retry_config is None.  With
\* auto_discover the constructor only schedules discover_servers: the task
\* runs when the caller next yields to the event loop (action Discover)
DynamicMCPManager(given, retry_config) ==
    [servers |-> EmptyDict, discovered_servers |-> <<>>, clients |-> <<>>,
     loaded_tools |-> <<>>,
     retry_config |-> IF given THEN retry_config ELSE DefaultRetryConfig,
     discovered |-> FALSE]

\* the descriptor files of servers_dir by file stem: servers with their own
\* retry_attempts, one that names itself, a disabled one, an invalid one and
\* a multi config
ManagerDir ==
    ("s" :> (SseOk @@ Retries(1)))
      @@ ("s_x" :> (HttpOk @@ Retries(2)))
      @@ ("f" :> ([name |-> "u"] @@ StdioOk))
      @@ ("off" :> ([enabled |-> FALSE] @@ SseOk))
      @@ ("bad" :> [type |-> "sse"])
      @@ ("m" :> [type |-> "multi",
                  servers |-> Servers(<< [name |-> "a"] @@ WsOk @@ Retries(1) >>)])

\* search_dir.glob("*.json"), in the order the directory lists the files
ManagerFiles == <<"bad", "f", "m", "off", "s", "s_x">>

RECURSIVE DiscoverLoop(_, _, _)
\* lines 113-138: the loop over the config files
DiscoverLoop(mgr, discovered, i) ==
    IF i > Len(ManagerFiles)
    THEN [mgr EXCEPT !.discovered_servers = discovered, !.discovered = TRUE]
    ELSE LET server_config == ManagerDir[ManagerFiles[i]]
             server_name   == Get(server_config, "name", ManagerFiles[i])
         IN  IF ~validate_config(server_config).ok
             THEN DiscoverLoop(mgr, discovered, i + 1)
             ELSE IF ~Get(server_config, "enabled", TRUE)
             THEN DiscoverLoop(mgr, discovered, i + 1)
             ELSE DiscoverLoop([mgr EXCEPT !.servers =
                                    (server_name :> server_config) @@ @],
                               Append(discovered, server_name), i + 1)

\* lines 86-141: discover_servers
discover_servers(mgr) == DiscoverLoop(mgr, <<>>, 1)

\* lines 169-171: the manager's policy replaces the one the client built
\* from its own config
SetRetryConfig(h, id, retry_config) ==
    IF HasRetry(h.clients[id])
    THEN [h EXCEPT !.clients[id].retry_config = retry_config]
    ELSE h

\* tool_wrapper.py 60-62: wrap_tools_list assigns tool.name on the tool objects
\* it is given, which are the ones the clients hold in self.tools
Renamed(h, tools, prefix) ==
    [h EXCEPT !.clients =
        [id \in DOMAIN @ |->
            [@[id] EXCEPT !.tools =
                [i \in DOMAIN @ |->
                    IF @[i] \in Range(tools)
                    THEN [@[i] EXCEPT !.name = Prefixed(prefix, @)]
                    ELSE @[i]]]]]

NotLoaded(h, mgr, raised) == [h |-> h, mgr |-> mgr, raised |-> raised, tools |-> <<>>]

\* lines 143-191: load_server; config is EmptyDict when none is given (None
\* and {} are both falsy at line 163)
load_server(h, mgr, server_name, config) ==
    IF /\ server_name \notin DOMAIN mgr.servers
       /\ server_name \notin Range(mgr.discovered_servers)
    THEN NotLoaded(h, mgr, "ValueError")
    ELSE IF config = EmptyDict /\ server_name \notin DOMAIN mgr.servers
    THEN NotLoaded(h, mgr, "KeyError")
    ELSE
      With(create_mcp_client(h, server_name,
                             IF config # EmptyDict THEN config
                             ELSE mgr.servers[server_name]), LAMBDA made :
        IF made.raised # "None" THEN NotLoaded(made.h, mgr, made.raised)
        ELSE
          With(ConnectClient(SetRetryConfig(made.h, made.id, mgr.retry_config),
                             made.id), LAMBDA r :
            IF r.raised # "None" THEN NotLoaded(r.h, mgr, r.raised)
            ELSE LET wrapped_tools == wrap_tools_list(r.tools, server_name)
                 IN  [h |-> Renamed(r.h, r.tools, server_name),
                      mgr |-> [mgr EXCEPT
                                 !.clients = DictSet(@, server_name, made.id),
                                 !.loaded_tools = @ \o wrapped_tools],
                      raised |-> "None",
                      tools |-> wrapped_tools]))

\* the characters of a server name, as far as str.startswith tells the names
\* of ManagerDir apart
NameText(token) == IF token = "s_x" THEN <<"s", "_", "x">> ELSE <<token>>

RECURSIVE Text(_)
\* the text of a tool name
Text(name) == IF name = <<>> THEN <<>> ELSE NameText(Head(name)) \o Text(Tail(name))

\* tool.name.startswith(f"{server_name}_")
StartsWithServer(name, server_name) ==
    LET prefix == Text(<<server_name, "_">>)
        text   == Text(name)
    IN  Len(prefix) <= Len(text) /\ SubSeq(text, 1, Len(prefix)) = prefix

DictGet(d, k) == d[CHOOSE i \in DOMAIN d : d[i].key = k].val
DictDel(d, k) == SelectSeq(d, LAMBDA e : e.key # k)

\* lines 345-373: reload_server
reload_server(h, mgr, server_name) ==
    LET kept   == SelectSeq(mgr.loaded_tools,
                            LAMBDA tool : ~StartsWithServer(tool.name, server_name))
        closed == IF DictHas(mgr.clients, server_name)
                  THEN ClientClose(h, DictGet(mgr.clients, server_name)).h
                  ELSE h
    IN  load_server(closed,
                    [mgr EXCEPT !.loaded_tools = kept,
                                !.clients = DictDel(@, server_name)],
                    server_name, EmptyDict)

\* lines 375-384: close_all
close_all(h, mgr) ==
    [h |-> CleanupLoop(h, mgr.clients, 1),
     mgr |-> [mgr EXCEPT !.clients = <<>>, !.loaded_tools = <<>>]]

\* the calls made on the manager under test
MaxManagerCalls == 3

\* the policies a manager is constructed with: none, or one of its own
ManagerPolicies ==
    {[given |-> FALSE, retry_config |-> DefaultRetryConfig],
     [given |-> TRUE, retry_config |-> RetryConfig(2, 1, 3, 2, TRUE)]}

\* the calls of load_server that are made: a server by its name, with no
\* config or with an inline one, and a name that no descriptor has
ManagerLoads ==
    {[server_name |-> n, config |-> EmptyDict] : n \in {"s", "s_x", "u", "m"}}
      \cup {[server_name |-> n, config |-> WsOk @@ Retries(1)] : n \in {"s", "new"}}

\* the names reload_server is called with
ReloadNames == {"s", "s_x", "new"}

\* the behaviours of the servers while the manager connects n clients: each
\* answers, fails the first connect() only, or fails every connect()
ManagerEnvs(n) ==
    {env \in Envs(n) :
        /\ ~env.exitErr
        /\ \A k \in 1..n :
              env.outs[k] \in {Outcome(0, "open"), Outcome(1, "initialize"),
                               Outcome(DefaultMaxAttempts, "open")}}

Call(op, server_name, raised) == [op |-> op, server_name |-> server_name, raised |-> raised]

InitManager ==
    /\ \E p \in ManagerPolicies : manager = DynamicMCPManager(p.given, p.retry_config)
    /\ heap = EmptyHeap
    /\ ops = <<>>

\* the discovery task runs, or the caller awaits discover_servers()
Discover ==
    /\ ~manager.discovered
    /\ manager' = discover_servers(manager)
    /\ UNCHANGED <<heap, ops, varsValidate, varsRetry, varsLoader, varsInvoke, varsSchema>>

\* await manager.load_server(server_name, config)
LoadServer ==
    /\ Len(ops) < MaxManagerCalls
    /\ \E call \in ManagerLoads :
          \E env \in ManagerEnvs(IF call.server_name \notin DOMAIN manager.servers THEN 0
                                 ELSE IF call.config # EmptyDict THEN Leaves(call.config)
                                 ELSE Leaves(manager.servers[call.server_name])) :
              \E r \in {load_server(WithEnv(heap, env), manager,
                                    call.server_name, call.config)} :
                  /\ heap' = Settled(r.h)
                  /\ manager' = r.mgr
                  /\ ops' = Append(ops, Call("load_server", call.server_name, r.raised))
    /\ UNCHANGED <<varsValidate, varsRetry, varsLoader, varsInvoke, varsSchema>>

\* await manager.reload_server(server_name)
ReloadServer ==
    /\ Len(ops) < MaxManagerCalls
    /\ \E server_name \in ReloadNames :
          \E env \in ManagerEnvs(IF server_name \in DOMAIN manager.servers
                                 THEN Leaves(manager.servers[server_name])
                                 ELSE 0) :
              \E r \in {reload_server(WithEnv(heap, env), manager, server_name)} :
                  /\ heap' = Settled(r.h)
                  /\ manager' = r.mgr
                  /\ ops' = Append(ops, Call("reload_server", server_name, r.raised))
    /\ UNCHANGED <<varsValidate, varsRetry, varsLoader, varsInvoke, varsSchema>>

\* await manager.close_all()
CloseAll ==
    /\ Len(ops) < MaxManagerCalls
    /\ \E r \in {close_all(WithEnv(heap, NoEnv), manager)} :
          /\ heap' = Settled(r.h)
          /\ manager' = r.mgr
          /\ ops' = Append(ops, Call("close_all", "", "None"))
    /\ UNCHANGED <<varsValidate, varsRetry, varsLoader, varsInvoke, varsSchema>>

(***************************************************************************)
(* dynamic_manager.py: load_tools_from_config, load_tools_from_yaml        *)
(***************************************************************************)
\* lines 270-289: the load_server call an enabled mcp_client entry leads to;
\* call is FALSE when the entry has neither mcp_config_file nor mcp_config
EntryTarget(tool_name, tool_config) ==
    LET server_name   == Get(tool_config, "mcp_config_file", "")
        inline_config == Get(tool_config, "mcp_config", EmptyDict)
    IN  IF server_name = ""
        THEN [call |-> inline_config # EmptyDict,
              server_name |-> tool_name, config |-> inline_config]
        ELSE [call |-> TRUE, server_name |-> server_name, config |-> EmptyDict]

\* lines 259-267: the entries the loop does not pass over
IsManagerEntry(tool_config) ==
    /\ Get(tool_config, "enabled", TRUE)
    /\ Get(tool_config, "provider", "auto") = "mcp_client"
    /\ EntryTarget("", tool_config).call

RECURSIVE LoadConfigLoop(_, _, _, _, _, _)
\* lines 257-293: the loop over the `tools` section; results keeps, for each
\* entry, "skipped" or what load_server raised ("None": it returned)
LoadConfigLoop(h, mgr, tools_config, i, loaded_tools, results) ==
    IF i > Len(tools_config)
    THEN [h |-> h, mgr |-> mgr, tools |-> loaded_tools, results |-> results]
    ELSE LET tool_name   == tools_config[i].name
             tool_config == tools_config[i].config
             target      == EntryTarget(tool_name, tool_config)
         IN  IF ~IsManagerEntry(tool_config)
             THEN LoadConfigLoop(h, mgr, tools_config, i + 1, loaded_tools,
                                 Append(results, "skipped"))
             ELSE With(load_server(h, mgr, target.server_name, target.config),
                       LAMBDA r :
                         LoadConfigLoop(r.h, r.mgr, tools_config, i + 1,
                                        loaded_tools \o r.tools,
                                        Append(results, r.raised)))

\* lines 227-295: load_tools_from_config
load_tools_from_config(h, mgr, config) ==
    LoadConfigLoop(h, mgr, Get(config, "tools", <<>>), 1, <<>>, <<>>)

\* lines 412-423: load_tools_from_yaml builds a manager and awaits
\* load_from_yaml (297-313) on it at once.  Nothing between the constructor
\* and the first lookup of load_server (159-161) waits for the event loop,
\* and a load_server that finds self.servers empty raises before it waits, so
\* the discovery task the constructor scheduled (70) has not run
load_tools_from_yaml(h, config) ==
    load_tools_from_config(h, DynamicMCPManager(FALSE, DefaultRetryConfig), config)

\* the configuration documents a manager is loaded from: an inline entry
\* under a name that has no descriptor and a descriptor entry; entries the
\* loop passes over and a descriptor entry; an entry with neither and an
\* inline entry under a name that has a descriptor
ManagerDocuments ==
    { [tools |-> << Entry("new", McpClient(WsOk @@ Retries(1))),
                    Entry("s", [provider |-> "mcp_client", mcp_config_file |-> "s"]) >>],
      [tools |-> << Entry("off", [enabled |-> FALSE] @@ McpClient(SseOk)),
                    Entry("a", [provider |-> "internal_mcp"]),
                    Entry("s_x", [provider |-> "mcp_client", mcp_config_file |-> "s_x"]) >>],
      [tools |-> << Entry("y", [provider |-> "mcp_client"]),
                    Entry("s", McpClient(WsOk @@ Retries(1))) >>] }

\* the number of entries of the document whose load_server gets to connect
Connecting(mgr, config) ==
    Cardinality({i \in DOMAIN config.tools :
        /\ IsManagerEntry(config.tools[i].config)
        /\ EntryTarget(config.tools[i].name, config.tools[i].config).server_name
             \in DOMAIN mgr.servers})

ConfigCall(op, config, results) ==
    [op |-> op, server_name |-> "", raised |-> "None", config |-> config,
     results |-> results]

\* await manager.load_tools_from_config(config)
LoadToolsFromConfig ==
    /\ Len(ops) < MaxManagerCalls
    /\ \E config \in ManagerDocuments :
          \E env \in ManagerEnvs(Connecting(manager, config)) :
              \E r \in {load_tools_from_config(WithEnv(heap, env), manager, config)} :
                  /\ heap' = Settled(r.h)
                  /\ manager' = r.mgr
                  /\ ops' = Append(ops, ConfigCall("load_tools_from_config",
                                                   config, r.results))
    /\ UNCHANGED <<varsValidate, varsRetry, varsLoader, varsInvoke, varsSchema>>

\* await load_tools_from_yaml(yaml_path): the manager is the one the function
\* has just built
LoadToolsFromYaml ==
    /\ ops = <<>>
    /\ manager = DynamicMCPManager(FALSE, DefaultRetryConfig)
    /\ \E config \in ManagerDocuments :
          \E r \in {load_tools_from_yaml(WithEnv(heap, NoEnv), config)} :
              /\ heap' = Settled(r.h)
              /\ manager' = r.mgr
              /\ ops' = Append(ops, ConfigCall("load_tools_from_yaml",
                                               config, r.results))
    /\ UNCHANGED <<varsValidate, varsRetry, varsLoader, varsInvoke, varsSchema>>

(***************************************************************************)
(* Specifications                                                          *)
(***************************************************************************)
IdleValidate == vConfig = EmptyDict /\ vResult = NotValidated
IdleRetry    == rIn = EmptyDict /\ rOut = RetryStart
IdleClient   == heap = EmptyHeap /\ ops = <<>>
IdleLoader   == document = EmptyDict /\ loader = NewLoader
IdleInvoke   == iIn = EmptyDict /\ iOut = NotInvoked
IdleSchema   == sIn = EmptyDict /\ sOut = NotTranslated
IdleManager  == manager = NoManager

\* validate_config applied to every config of ValidateConfigs
InitV == InitValidate /\ IdleRetry /\ IdleClient /\ IdleLoader /\ IdleInvoke /\ IdleSchema /\ IdleManager
NextV == Validate
SpecValidate == InitV /\ [][NextV]_vars

\* retry_async applied to every input of RetryInputs
InitR == InitRetry /\ IdleValidate /\ IdleClient /\ IdleLoader /\ IdleInvoke /\ IdleSchema /\ IdleManager
NextR == Retry
SpecRetry == InitR /\ [][NextR]_vars

\* one client of each class, connected and closed
InitC == InitClient /\ IdleValidate /\ IdleRetry /\ IdleLoader /\ IdleInvoke /\ IdleSchema /\ IdleManager
NextC == DoConnect \/ DoClose
SpecClient == InitC /\ [][NextC]_vars

\* a ToolLoader that loads a document and is cleaned up
InitL == InitLoader /\ ops = <<>> /\ IdleValidate /\ IdleRetry /\ IdleInvoke /\ IdleSchema /\ IdleManager
NextL == GetTools \/ LoadToolEntry \/ LoadSuitesStart \/ LoadSuite \/ LoadFinish \/ Cleanup
SpecLoader == InitL /\ [][NextL]_vars

\* one invocation of a tool the layer hands out
InitI == InitInvoke /\ IdleValidate /\ IdleRetry /\ IdleClient /\ IdleLoader /\ IdleSchema /\ IdleManager
NextI == Invoke
SpecInvoke == InitI /\ [][NextI]_vars

\* one property schema translated by one translator
InitS == InitSchema /\ IdleValidate /\ IdleRetry /\ IdleClient /\ IdleLoader /\ IdleInvoke /\ IdleManager
NextS == Translate
SpecSchema == InitS /\ [][NextS]_vars

\* a DynamicMCPManager that discovers, loads, reloads and closes servers
InitM == InitManager /\ IdleValidate /\ IdleRetry /\ IdleLoader /\ IdleInvoke /\ IdleSchema
NextM ==
    \/ Discover \/ LoadServer \/ ReloadServer \/ CloseAll
    \/ LoadToolsFromConfig \/ LoadToolsFromYaml
SpecManager == InitM /\ [][NextM]_vars


(***************************************************************************)
(* Claims about validate_config (SpecValidate)                             *)
(***************************************************************************)
Validated == vResult # NotValidated

FiveTypes == {"stdio", "sse", "streamable_http", "websocket", "multi"}

RECURSIVE WellFormed(_)
\* a config that carries every field its transport requires, well-formed
WellFormed(config) ==
    LET t == Get(config, "type", "")
    IN  CASE t = "stdio" ->
               /\ Has(config, "command") /\ config.command # ""
               /\ Has(config, "args") /\ config.args.islist
          [] t \in {"sse", "streamable_http"} ->
               Has(config, "url") /\ StartsWith(config.url, {"http://", "https://"})
          [] t = "websocket" ->
               Has(config, "url") /\ StartsWith(config.url, {"ws://", "wss://"})
          [] t = "multi" ->
               /\ Has(config, "servers") /\ config.servers.islist
               /\ Len(config.servers.items) > 0
               /\ \A i \in DOMAIN config.servers.items :
                     /\ Has(config.servers.items[i], "name")
                     /\ WellFormed(config.servers.items[i])
               /\ \A i, j \in DOMAIN config.servers.items :
                     i # j => config.servers.items[i].name # config.servers.items[j].name
          [] OTHER -> FALSE

\* the required fields of a transport that the config does not carry
MissingFields(config) ==
    LET t == Get(config, "type", "")
    IN  CASE t = "stdio" -> {"command", "args"} \ DOMAIN config
          [] t \in {"sse", "streamable_http", "websocket"} -> {"url"} \ DOMAIN config
          [] t = "multi" -> {"servers"} \ DOMAIN config
          [] OTHER -> {}

\* C2: validate_config rejects, with a message naming a missing field, every
\* config of the five transport types that lacks a required field; it rejects
\* an unsupported type; it returns (True, "") for a well-formed config of
\* each of the five types.
C2_ValidateConfig ==
    Validated =>
      /\ (Get(vConfig, "type", "") \in FiveTypes /\ MissingFields(vConfig) # {})
            => /\ ~vResult.ok
               /\ Range(vResult.msg) \cap MissingFields(vConfig) # {}
      /\ Get(vConfig, "type", "") = "grpc" => ~vResult.ok /\ vResult.msg # <<>>
      /\ WellFormed(vConfig) => vResult = [ok |-> TRUE, msg |-> <<>>]

C2_Witness ==
    /\ Validated
    /\ Get(vConfig, "type", "") = "stdio"
    /\ Has(vConfig, "command") /\ ~Has(vConfig, "args")
    /\ vResult = [ok |-> FALSE,
                  msg |-> <<"stdio config requires '", "args", "' field">>]

\* the names in a servers list are pairwise distinct
DistinctNames(items) ==
    \A i, j \in DOMAIN items : (i # j) => Get(items[i], "name", i) # Get(items[j], "name", j)

\* C18: validate_config rejects a multi config in which two entries of
\* servers carry the same name; it accepts a multi config only if the list
\* is non-empty, every entry has a name and is itself valid, and the names
\* are pairwise distinct
C18_UniqueServerNames ==
    (Validated /\ ClientType(vConfig) = "multi") =>
       (vResult.ok =>
           /\ Has(vConfig, "servers") /\ vConfig.servers.islist
           /\ Len(vConfig.servers.items) > 0
           /\ \A i \in DOMAIN vConfig.servers.items :
                 /\ Has(vConfig.servers.items[i], "name")
                 /\ validate_config(vConfig.servers.items[i]).ok
           /\ DistinctNames(vConfig.servers.items))

\* C19: validate_config rejects a stdio config whose command is present but
\* empty and one whose args is not a list; it accepts a stdio config only
\* when command is non-empty and args is a list
C19_StdioCommandNonEmpty ==
    (Validated /\ ClientType(vConfig) = "stdio") =>
       /\ (Has(vConfig, "command") /\ vConfig.command = "") => ~vResult.ok
       /\ (Has(vConfig, "args") /\ ~vConfig.args.islist) => ~vResult.ok
       /\ vResult.ok =>
             /\ Has(vConfig, "command") /\ vConfig.command # ""
             /\ Has(vConfig, "args") /\ vConfig.args.islist

(***************************************************************************)
(* Claims about retry_async (SpecRetry)                                    *)
(***************************************************************************)
RetryDone == rOut.status # "running"

\* every one of the first n calls of func fails with an error the loop catches
AllFail(n) ==
    \A i \in 1..n : /\ ~rIn.outcomes[i].ok
                    /\ Caught(rIn.outcomes[i].err, rIn.exceptions)

\* the events of the run that are calls of func or sleeps
CallsAndSleeps == SelectSeq(rOut.events, LAMBDA e : e \in {"call", "sleep"})

\* C1: with maxAttempts = N >= 1, jitter off and a func that fails with a
\* retryable error on every call, retry_async calls func exactly N times,
\* sleeps exactly N-1 times, between the calls, with delays
\* min(baseDelay * exponentialBase^(k-1), maxDelay) for k = 1..N-1 in that
\* order, and raises the error of the N-th call.
C1_RetryExhaustion ==
    LET N == rIn.config.max_attempts
    IN  (RetryDone /\ N >= 1 /\ ~rIn.config.jitter /\ AllFail(N)) =>
          /\ rOut.calls = N
          /\ Len(rOut.sleeps) = N - 1
          /\ \A k \in 1..(N - 1) :
                rOut.sleeps[k] =
                   4 * (IF rIn.config.base_delay * Pow(rIn.config.exponential_base, k - 1)
                             <= rIn.config.max_delay
                        THEN rIn.config.base_delay * Pow(rIn.config.exponential_base, k - 1)
                        ELSE rIn.config.max_delay)
          /\ CallsAndSleeps =
                [i \in 1..(2 * N - 1) |-> IF i % 2 = 1 THEN "call" ELSE "sleep"]
          /\ rOut.status = "raised"
          /\ rOut.error = [cls |-> rIn.outcomes[N].err, call |-> N]

C1_Witness ==
    /\ RetryDone
    /\ rIn.config = RetryConfig(3, 1, 60, 2, FALSE)
    /\ \A i \in 1..3 : rIn.outcomes[i] = [ok |-> FALSE, err |-> "TimeoutError"]
    /\ rOut.calls = 3
    /\ rOut.sleeps = <<4, 8>>
    /\ rOut.status = "raised"
    /\ rOut.error = [cls |-> "TimeoutError", call |-> 3]

\* the call at which the loop stops: the first call that returns or raises
\* an error the loop does not catch, else the last attempt
RECURSIVE StopAt(_)
StopAt(i) ==
    IF i >= rIn.config.max_attempts THEN i
    ELSE IF rIn.outcomes[i].ok \/ ~Caught(rIn.outcomes[i].err, rIn.exceptions) THEN i
    ELSE StopAt(i + 1)

\* C10: the observer is called exactly once before each sleep, with the
\* attempt just failed, that attempt's error and the delay about to be
\* slept (so maxAttempts-1 times when every attempt fails, never after the
\* final attempt); an exception of the observer neither stops the loop, nor
\* replaces the error finally raised, nor skips the sleep or the next attempt.
C10_Observer ==
    LET N == rIn.config.max_attempts
    IN  (RetryDone /\ N >= 1 /\ rIn.on_retry.present) =>
          /\ Len(rOut.observed) = Len(rOut.sleeps)
          /\ \A k \in DOMAIN rOut.observed :
                rOut.observed[k] =
                   <<k, [cls |-> rIn.outcomes[k].err, call |-> k], rOut.sleeps[k]>>
          /\ \A i \in DOMAIN rOut.events :
                /\ rOut.events[i] = "sleep" => i > 1 /\ rOut.events[i - 1] = "observe"
                /\ rOut.events[i] = "observe" =>
                      /\ i + 2 <= Len(rOut.events)
                      /\ rOut.events[i + 1] = "sleep"
                      /\ rOut.events[i + 2] = "call"
          /\ AllFail(N) => Len(rOut.observed) = N - 1
          /\ rOut.calls = StopAt(1)
          /\ Len(rOut.sleeps) = StopAt(1) - 1
          /\ rOut.status = "raised" =>
                rOut.error = [cls |-> rIn.outcomes[StopAt(1)].err, call |-> StopAt(1)]
          /\ rOut.status = "returned" <=> rIn.outcomes[StopAt(1)].ok

C10_Witness ==
    /\ RetryDone
    /\ rIn.config.max_attempts = 3
    /\ rIn.on_retry = [present |-> TRUE, raisesAt |-> 1..3]
    /\ AllFail(3)
    /\ Len(rOut.observed) = 2
    /\ rOut.calls = 3
    /\ rOut.status = "raised"
    /\ rOut.error.call = 3

\* d(n) of the policy of the run, in quarter seconds
PolicyDelay(n) ==
    4 * (IF rIn.config.base_delay * Pow(rIn.config.exponential_base, n - 1)
              <= rIn.config.max_delay
         THEN rIn.config.base_delay * Pow(rIn.config.exponential_base, n - 1)
         ELSE rIn.config.max_delay)

\* C11: every delay slept is at most maxDelay; with jitter off the delay
\* after failed attempt n is d(n) = min(baseDelay * exponentialBase^(n-1),
\* maxDelay) and does not decrease with n; with jitter on it lies between
\* d(n)/2 and d(n).
C11_DelayBounds ==
    RetryDone =>
       \A n \in DOMAIN rOut.sleeps :
          /\ rOut.sleeps[n] <= 4 * rIn.config.max_delay
          /\ ~rIn.config.jitter =>
                /\ rOut.sleeps[n] = PolicyDelay(n)
                /\ n > 1 => rOut.sleeps[n - 1] <= rOut.sleeps[n]
          /\ rIn.config.jitter =>
                /\ 2 * rOut.sleeps[n] >= PolicyDelay(n)
                /\ rOut.sleeps[n] <= PolicyDelay(n)

C11_Witness ==
    /\ RetryDone
    /\ rIn.config = RetryConfig(3, 2, 3, 2, TRUE)
    /\ rOut.sleeps = <<6, 6>>

(***************************************************************************)
(* Claims about a client used on its own (SpecClient)                      *)
(***************************************************************************)
Top == heap.clients[TopClient]

\* the clients the multi client under test created, in creation order
DirectSubs == {id \in DOMAIN heap.clients : heap.clients[id].owner = TopClient}

\* the positions in the log where connect() of client id returned its tools
ConnectedAt(id) ==
    {i \in DOMAIN heap.log : heap.log[i] = Event("connect", id, 1)}
OpenedSubs == {id \in DirectSubs : ConnectedAt(id) # {}}

\* the log shows client id start a connect() that did not return
FailedToConnect(id) ==
    /\ \E i \in DOMAIN heap.log : heap.log[i] = Event("connect", id, 0)
    /\ ConnectedAt(id) = {}

RECURSIVE ToolsOf(_, _)
\* the tools of the clients of set ids, by increasing id, from id n on
ToolsOf(ids, n) ==
    IF n > Len(heap.clients) THEN <<>>
    ELSE (IF n \in ids THEN heap.clients[n].tools ELSE <<>>) \o ToolsOf(ids, n + 1)

ConnectOps == {k \in DOMAIN ops : ops[k].op = "connect"}

\* C3: connect() of a multi client does not raise when sub-servers fail to
\* connect; is_connected is true exactly when at least one sub-connection
\* succeeded; the tools returned are the concatenation, in order, of the
\* tools of the sub-servers that connected.
C3_MultiPartialFailure ==
    (Top.cls = "multi") =>
       \A k \in ConnectOps :
          /\ ops[k].raised = "None"
          /\ ops[k].connected <=> OpenedSubs # {}
          /\ Top.tools = ToolsOf(OpenedSubs, 1)
          /\ \A id \in DirectSubs \ OpenedSubs : heap.clients[id].tools = <<>>

C3_Witness ==
    /\ Top.cls = "multi"
    /\ \E k \in ConnectOps : ops[k].raised = "None" /\ ops[k].connected
    /\ \E id \in DirectSubs : FailedToConnect(id)
    /\ Cardinality(OpenedSubs) = 1
    /\ Top.tools # <<>>
    /\ Top.tools = ToolsOf(OpenedSubs, 1)

\* the log shows close() called on client id after position i
ClosedAfter(id, i) ==
    \E j \in DOMAIN heap.log : j > i /\ heap.log[j] = Event("close", id, 0)

\* C4: once close() of a multi client has returned, close() has been called
\* on every sub-connection its connect() opened, whatever the names in the
\* list of sub-servers, and close() raised nothing.
C4_MultiCloseClosesAll ==
    (Top.cls = "multi") =>
       \A k \in DOMAIN ops :
          (ops[k].op = "close" /\ \E c \in ConnectOps : c < k) =>
             /\ ops[k].raised = "None"
             /\ \A id \in OpenedSubs : \A i \in ConnectedAt(id) : ClosedAfter(id, i)

\* C5: two close() calls in a row, from any state of any of the five client
\* classes: neither raises, is_connected is false after each, the second
\* exits no context, and no context is ever exited twice.
C5_CloseTwice ==
    \A k \in DOMAIN ops :
       (k > 1 /\ ops[k - 1].op = "close" /\ ops[k].op = "close") =>
          /\ ops[k - 1].raised = "None" /\ ops[k].raised = "None"
          /\ ~ops[k - 1].connected /\ ~ops[k].connected
          /\ ops[k].exits = 0
          /\ \A cx \in DOMAIN heap.ctxs : heap.ctxs[cx].exits <= 1

C5_Witness ==
    /\ Top.cls = "stdio"
    /\ Len(ops) = 3
    /\ ops[1] = Op("connect", "None", 0, TRUE)
    /\ ops[2] = Op("close", "None", 2, FALSE)
    /\ ops[3] = Op("close", "None", 0, FALSE)
    /\ \A cx \in DOMAIN heap.ctxs : heap.ctxs[cx].exits = 1

(***************************************************************************)
(* Claims about ToolLoader (SpecLoader)                                    *)
(***************************************************************************)
LoadDone == loader.pc = "done"

\* the entries of a section that are enabled, by the section's default
EnabledEntries(section, default) ==
    SelectSeq(section, LAMBDA e : Get(e.config, "enabled", default))

EnabledNames ==
    [i \in DOMAIN EnabledEntries(document.tools, TRUE) |->
        <<"tools", EnabledEntries(document.tools, TRUE)[i].name>>]
      \o [i \in DOMAIN EnabledEntries(document.multi_servers, FALSE) |->
            <<"multi_servers", EnabledEntries(document.multi_servers, FALSE)[i].name>>]

RECURSIVE AttemptedTools(_)
\* the tools added by the attempts from the k-th on
AttemptedTools(k) ==
    IF k > Len(loader.attempted) THEN <<>>
    ELSE loader.attempted[k].tools \o AttemptedTools(k + 1)

\* the clients the loader itself built
LoaderClients == {id \in DOMAIN heap.clients : heap.clients[id].owner = 0}

\* C6: when get_tools() has loaded a document it has not raised, it has
\* attempted every enabled entry of both sections in order whatever the
\* entries before it did, and the result holds the tools of every entry
\* whose own load succeeded: of each client that connected and of each
\* internal tool that imports.
C6_LoaderPartialFailure ==
    LoadDone =>
       /\ loader.raised = "None"
       /\ [i \in DOMAIN loader.attempted |->
              <<loader.attempted[i].section, loader.attempted[i].name>>] = EnabledNames
       /\ loader.loaded_tools = AttemptedTools(1)
       /\ \A id \in LoaderClients :
             ConnectedAt(id) # {} =>
                Range(heap.clients[id].tools) \subseteq Range(loader.loaded_tools)
       /\ \A i \in DOMAIN document.tools :
             LET e == document.tools[i]
             IN  (/\ Get(e.config, "enabled", TRUE)
                  /\ Get(e.config, "provider", "") = "internal_mcp"
                  /\ e.name \in DOMAIN Registry.internal
                  /\ Registry.internal[e.name].importable)
                   => [name |-> <<e.name>>, conn |-> 0] \in Range(loader.loaded_tools)

C6_Witness ==
    /\ LoadDone
    /\ Len(loader.attempted) = 2
    /\ loader.attempted[1].raised = "FileNotFoundError"
    /\ loader.attempted[2].tools # <<>>
    /\ loader.loaded_tools = loader.attempted[2].tools

\* the positions in the log where a cleanup() returned
CleanupAt == {p \in DOMAIN heap.log : heap.log[p] = Event("cleanup", 0, 0)}

\* C7: when cleanup() returns, close() has been called on every connection
\* the loader opened before, for `tools` entries and suites alike whatever
\* their names, and the map of active connections is empty.
C7_CleanupClosesAll ==
    /\ \A p \in CleanupAt : \A id \in LoaderClients : \A i \in ConnectedAt(id) :
          i < p => \E j \in (i + 1)..(p - 1) : heap.log[j] = Event("close", id, 0)
    /\ (heap.log # <<>> /\ Len(heap.log) \in CleanupAt) => loader.mcp_clients = <<>>

\* the number of connect() calls made on client id
ConnectCalls(id) ==
    Cardinality({i \in DOMAIN heap.log :
                    heap.log[i].ev = "connect" /\ heap.log[i].client = id})

\* C8: on every loading path, connect() is attempted at most once on a
\* client whose config makes connect() fail (a missing url, a url of the
\* wrong scheme, a missing command or args).
C8_ConfigErrorNotRetried ==
    \A id \in DOMAIN heap.clients :
       ConfigError(heap.clients[id]) # "None" => ConnectCalls(id) <= 1

\* C9: every client the loader builds is built from a config it gave to
\* validate_config, and connect() is called on no client whose config
\* validate_config rejects.
C9_ValidatedBeforeConnect ==
    \A id \in DOMAIN heap.clients :
       /\ id \in LoaderClients => heap.clients[id].config \in heap.validated
       /\ ConnectCalls(id) > 0 => validate_config(heap.clients[id].config).ok

\* the positions in the log of the connect() calls and of the retry sleeps
\* of client id
ConnectsOf(id) ==
    {p \in DOMAIN heap.log : heap.log[p].ev = "connect" /\ heap.log[p].client = id}
SleepsOf(id) ==
    {p \in DOMAIN heap.log : heap.log[p].ev = "sleep" /\ heap.log[p].client = id}

\* C12: the retry sleeps of one tool's connection never delay the start of
\* another tool's connect(): no connection the loader builds makes its first
\* connect() call after a retry sleep of another one.
C12_SleepDelaysNoOtherTool ==
    \A id \in LoaderClients : \A other \in LoaderClients \ {id} :
       \A p \in ConnectsOf(id) : \A q \in SleepsOf(other) :
          (\A r \in ConnectsOf(id) : p <= r) => p < q

(***************************************************************************)
(* Claims checked under SpecInvoke                                         *)
(***************************************************************************)
Invoked == iOut # NotInvoked

\* C13: one call of a wrapped tool through its synchronous entry point
\* executes the underlying implementation exactly once, whether it returns
\* or raises (RuntimeError included) and whether or not an event loop is
\* running at the call site
C13_InvokedOnce ==
    (Invoked /\ iIn.tool.kind = "remote" /\ iIn.entry = "sync") => iOut.executions = 1

\* the invocation breaks the parameter contract or its implementation raises
InvocationFails ==
    (iIn.tool.has_args_schema /\ ~iIn.args_ok) \/ ~iIn.outcomes[1].ok

\* a structured error payload: the error, its kind and the tool name
IsErrorPayload(value) ==
    /\ {"error", "tool"} \subseteq DOMAIN value
    /\ DOMAIN value \cap {"type", "error_type"} # {}
    /\ value.tool = iIn.tool.name

\* C14: for every tool handed out, through the sync and the async entry
\* point, an invocation that violates the parameter contract or whose
\* implementation raises returns a structured error payload and never raises
C14_ErrorsReturned ==
    (Invoked /\ InvocationFails) =>
        /\ iOut.status = "returned"
        /\ IsErrorPayload(iOut.value)

(***************************************************************************)
(* Claims checked under SpecSchema                                         *)
(***************************************************************************)
Translated == sOut # NotTranslated

\* an optional parameter that declares an enum and no default of its own
OptionalEnumNoDefault ==
    /\ ~sIn.required
    /\ Has(sIn.prop_schema, "enum") /\ Len(sIn.prop_schema.enum) > 0
    /\ ~Has(sIn.prop_schema, "default")
    /\ Has(sIn.prop_schema, "type") /\ sIn.prop_schema.type \in JsonTypes

\* C20: in every schema translator an optional parameter with an enum and
\* no explicit default gets the generic default of its JSON type when the
\* tool is invoked without the argument, member of the enum or not
C20_GenericDefaultWithEnum ==
    (Translated /\ OptionalEnumNoDefault) =>
        /\ sOut.call.status = "value"
        /\ sOut.call.value = _get_default_value(sIn.prop_schema.type)

(***************************************************************************)
(* Claims about the providers and the suites (SpecLoader)                  *)
(***************************************************************************)
\* the provider an entry names; "auto" when it names none
NamedProvider(config) == Get(config, "provider", Get(config, "mode", "auto"))

\* the config of the `tools` entry called name
ToolConfig(name) ==
    (CHOOSE e \in Range(document.tools) : e.name = name).config

\* the clients the loader built under the name of a `tools` entry
ClientsNamed(name) ==
    {id \in LoaderClients : heap.clients[id].server_name = name}

\* what the internal provider adds for name
InternalTools(name) ==
    IF Registry.internal[name].importable
    THEN << [name |-> <<name>>, conn |-> 0] >> ELSE <<>>

\* the config in the descriptor file a `tools` entry refers to
Descriptor(config) == Files[Registry.external[config.mcp_config_file].config_path]

\* C15: with provider "auto" the loader takes the internal provider whenever
\* the catalog lists an internal implementation for the name, also when an
\* external one exists too, and the external provider when only an external
\* one exists, whatever else the entry or the document holds
C15_AutoSelection ==
    \A k \in DOMAIN loader.attempted :
       LET at == loader.attempted[k]
       IN  (at.section = "tools" /\ NamedProvider(ToolConfig(at.name)) = "auto") =>
              /\ at.name \in DOMAIN Registry.internal =>
                    /\ at.tools = InternalTools(at.name)
                    /\ ClientsNamed(at.name) = {}
              /\ (at.name \notin DOMAIN Registry.internal
                    /\ at.name \in DOMAIN Registry.external) =>
                    /\ WithGlobalSettings(document, Descriptor(ToolConfig(at.name)))
                          \in heap.validated
                    /\ ClientsNamed(at.name) # {}

C15_Witness ==
    /\ LoadDone
    /\ Len(loader.attempted) = 2
    /\ loader.attempted[1].name = "both"
    /\ loader.attempted[1].tools = InternalTools("both")
    /\ loader.attempted[2].name = "ext"
    /\ loader.attempted[2].tools # <<>>
    /\ ClientsNamed("both") = {}

\* C16: an enabled entry with an explicit provider that the catalog does not
\* list for its name is skipped: no tool is added for it and no connection
\* is opened for it
C16_UnlistedProviderSkipped ==
    \A k \in DOMAIN loader.attempted :
       LET at == loader.attempted[k]
       IN  (/\ at.section = "tools"
            /\ NamedProvider(ToolConfig(at.name)) \in {"internal_mcp", "mcp_client"}
            /\ NamedProvider(ToolConfig(at.name)) \notin Range(Providers(at.name))) =>
              /\ at.tools = <<>>
              /\ ClientsNamed(at.name) = {}

\* the `tools` entry of type multi with the servers of a suite
SuiteAsToolEntry(suite_config) ==
    (IF Has(suite_config, "enabled")
     THEN [enabled |-> suite_config.enabled] ELSE EmptyDict)
      @@ McpClient([type |-> "multi",
                    servers |-> Get(suite_config, "servers", Servers(<<>>))])

\* one iteration of the loop over `tools` on entry name, from loader l and
\* heap h to l2 and h2, booked as an attempt of section
ToolEntryStep(l, h, section, name, tool_config, leaves, l2, h2) ==
    IF ~Get(tool_config, "enabled", TRUE)
    THEN l2 = [l EXCEPT !.i = @ + 1] /\ h2 = h
    ELSE \E env \in LoaderEnvs(leaves, {FALSE}) :
           \E r \in {LoadByProvider(WithEnv(h, env), l.mcp_clients, document,
                                    name, tool_config)} :
              l2 = EntryLoaded(l, section, name, r) /\ h2 = Settled(r.h)

\* C17: loading a suite of multi_servers is what loading one `tools` entry
\* of type multi with the same servers is: for the same outcomes of the
\* sub-servers, the same enabled default, the same validation, the same
\* connections, the same tools and the same connection kept for cleanup
C17_SuiteIsMultiEntry ==
    [][(loader.pc = "suites" /\ loader'.pc = "suites" /\ loader' # loader) =>
          ToolEntryStep(loader, heap, "multi_servers",
                        document.multi_servers[loader.i].name,
                        SuiteAsToolEntry(document.multi_servers[loader.i].config),
                        EntryLeaves(document.multi_servers[loader.i].config),
                        loader', heap')]_vars

(***************************************************************************)
(* More claims about the schema translators (SpecSchema)                   *)
(***************************************************************************)
\* C21: a property listed in required is translated to a parameter without
\* a default, also when its schema carries a default or an enum, and a call
\* without the argument is rejected; a property not listed has a default
C21_RequiredHasNoDefault ==
    Translated =>
       /\ sIn.required =>
             /\ ~sOut.field.has_default
             /\ sOut.call.status = "ValidationError"
       /\ ~sIn.required =>
             /\ sOut.field.has_default
             /\ sOut.call = [status |-> "value", value |-> sOut.field.default]

C21_Witness ==
    /\ Translated
    /\ sIn.translator = "ImprovedMCPTool"
    /\ sIn.required
    /\ Has(sIn.prop_schema, "default") /\ Has(sIn.prop_schema, "enum")
    /\ sOut.call.status = "ValidationError"

(***************************************************************************)
(* More claims about tool invocation (SpecInvoke)                          *)
(***************************************************************************)
\* what the caller of an invocation sees
Seen(out) == [status |-> out.status, value |-> out.value, error |-> out.error]

\* C22: the synchronous entry point make_sync_async_compatible adds to an
\* async-only tool returns what awaiting the coroutine with the same
\* arguments returns, or raises what it raises, with and without a running
\* event loop
C22_SyncEqualsAwait ==
    (Invoked /\ iIn.tool.kind = "remote" /\ iIn.entry = "sync") =>
        Seen(iOut) = Seen(RunCoroutine(iIn.outcomes, 1))

(***************************************************************************)
(* Claims about discovery and loading (SpecLoader)                         *)
(***************************************************************************)
\* the descriptors with enabled: false
DisabledDescriptors ==
    {n \in DOMAIN ServersDir : ~Get(ServersDir[n], "enabled", TRUE)}

\* C23: a descriptor with enabled: false is not among the catalog's external
\* servers, and an enabled entry that refers to it through mcp_config_file
\* is skipped: no tool is added and no connection is attempted for it
C23_DisabledDescriptorSkipped ==
    /\ DisabledDescriptors \cap DOMAIN Registry.external = {}
    /\ \A k \in DOMAIN loader.attempted :
          LET at == loader.attempted[k]
          IN  (/\ at.section = "tools"
               /\ NamedProvider(ToolConfig(at.name)) = "mcp_client"
               /\ Get(ToolConfig(at.name), "mcp_config_file", "") \in DisabledDescriptors) =>
                 /\ at.tools = <<>>
                 /\ at.raised = "None"
                 /\ ClientsNamed(at.name) = {}

C23_Witness ==
    /\ LoadDone
    /\ Len(loader.attempted) = 2
    /\ loader.attempted[1].name = "off"
    /\ loader.attempted[1].tools = <<>>
    /\ loader.attempted[2].name = "ext"
    /\ loader.attempted[2].tools # <<>>
    /\ Cardinality(LoaderClients) = 1

(***************************************************************************)
(* Claims about the retry policy of a client (SpecClient)                  *)
(***************************************************************************)
\* C24: each of the five retry overrides a config may carry (attempts, base
\* delay, max delay, exponential base, jitter) sets the corresponding field
\* of the retry policy of the client built from it; a field not given takes
\* its default
C24_RetryOverrides ==
    \A id \in DOMAIN heap.clients :
       HasRetry(heap.clients[id]) =>
          heap.clients[id].retry_config
             = get_retry_config_from_dict(heap.clients[id].config)

\* the connect_with_retry() calls made so far on the client under test
ConnectWithRetryDone ==
    HasRetry(heap.clients[TopClient]) /\ \E i \in DOMAIN ops : ops[i].op = "connect"

\* C26: the retry policy of every client has max_attempts >= 1,
\* base_delay > 0 and max_delay >= base_delay whatever the config supplies,
\* so connect_with_retry calls connect() at least once and at most
\* max_attempts times
C26_PolicyInvariant ==
    /\ \A id \in DOMAIN heap.clients :
          HasRetry(heap.clients[id]) =>
             /\ heap.clients[id].retry_config.max_attempts >= 1
             /\ heap.clients[id].retry_config.base_delay > 0
             /\ heap.clients[id].retry_config.max_delay
                   >= heap.clients[id].retry_config.base_delay
    /\ ConnectWithRetryDone =>
          /\ ConnectCalls(TopClient) >= 1
          /\ ConnectCalls(TopClient) <= heap.clients[TopClient].retry_config.max_attempts

(***************************************************************************)
(* Claims about the configs the loader connects with (SpecLoader)          *)
(***************************************************************************)
\* the server config a `tools` entry gives: the descriptor it names, or its
\* inline mcp_config
SourceConfig(config) ==
    IF Has(config, "mcp_config_file") THEN Descriptor(config) ELSE config.mcp_config

\* the transport clients built for the `tools` entry called name
EntryClients(name) == {id \in ClientsNamed(name) : HasRetry(heap.clients[id])}

\* C27: when the loader merges global_mcp_settings into a server config,
\* every key the server config sets keeps its value and only the keys it
\* does not set receive the global value
C27_GlobalSettingsFillGaps ==
    \A k \in DOMAIN loader.attempted : \A id \in EntryClients(loader.attempted[k].name) :
       LET own    == SourceConfig(ToolConfig(loader.attempted[k].name))
           global == document.global_mcp_settings
           merged == heap.clients[id].config
       IN  loader.attempted[k].section = "tools" =>
              /\ DOMAIN merged = DOMAIN own \cup DOMAIN global
              /\ \A key \in DOMAIN own : merged[key] = own[key]
              /\ \A key \in DOMAIN global \ DOMAIN own : merged[key] = global[key]

C27_Witness ==
    /\ LoadDone
    /\ \E id \in EntryClients("c") : heap.clients[id].config.retry_attempts = 1
    /\ \E id \in EntryClients("ext") : heap.clients[id].config.retry_attempts = 2
    /\ document.global_mcp_settings = [retry_attempts |-> 2]

(***************************************************************************)
(* More claims about retry_async (SpecRetry)                               *)
(***************************************************************************)
\* func fails k-1 times with errors the loop catches and returns at call k
FirstSuccessAt(k) == AllFail(k - 1) /\ rIn.outcomes[k].ok

\* C29: if func first succeeds on its k-th call, 1 <= k <= max_attempts,
\* retry_async returns the result of that call after exactly k calls and
\* k-1 sleeps, and neither calls nor sleeps after the success
C29_FirstSuccess ==
    RetryDone =>
       \A k \in 1..rIn.config.max_attempts :
          FirstSuccessAt(k) =>
             /\ rOut.status = "returned"
             /\ rOut.result = k
             /\ rOut.calls = k
             /\ Len(rOut.sleeps) = k - 1
             /\ CallsAndSleeps =
                   [i \in 1..(2 * k - 1) |-> IF i % 2 = 1 THEN "call" ELSE "sleep"]

C29_Witness ==
    /\ RetryDone
    /\ rIn.config.max_attempts = 3
    /\ FirstSuccessAt(3)
    /\ rOut.status = "returned"
    /\ rOut.result = 3
    /\ Len(rOut.sleeps) = 2

(***************************************************************************)
(* Claims about the suites' connections (SpecLoader)                       *)
(***************************************************************************)
\* the multi clients the loader built, and the clients those built
LoaderMultiClients == {id \in LoaderClients : ~HasRetry(heap.clients[id])}
SubClients == {id \in DOMAIN heap.clients : heap.clients[id].owner # 0}

\* C30: no double retry in a multi-server connection: connect() of each
\* sub-server is attempted at most its own max_attempts times per connect()
\* of the aggregator, and the loader calls the aggregator's connect()
\* exactly once, outside any retry loop
C30_NoDoubleRetry ==
    /\ \A id \in LoaderMultiClients :
          /\ ConnectCalls(id) = 1
          /\ \A p \in DOMAIN heap.log : heap.log[p].ev = "sleep" => heap.log[p].client # id
    /\ \A id \in SubClients :
          IF HasRetry(heap.clients[id])
          THEN ConnectCalls(id) <= heap.clients[id].retry_config.max_attempts
          ELSE ConnectCalls(id) <= 1

C30_Witness ==
    /\ LoadDone
    /\ \E id \in LoaderMultiClients : ConnectCalls(id) = 1
    /\ \E id \in LoaderMultiClients :
          /\ heap.clients[id].server_name = "m"
          /\ heap.clients[id].is_connected
          /\ \E sub \in SubClients :
                heap.clients[sub].owner = id /\ ConnectCalls(sub) = 2
    /\ \E id \in SubClients :
          /\ heap.clients[id].retry_config.max_attempts = 2
          /\ ConnectCalls(id) = 2

(***************************************************************************)
(* C28: a transport client's connection state                              *)
(***************************************************************************)
TransportClients == {id \in DOMAIN heap.clients : heap.clients[id].cls # "multi"}

\* the positions in the log of the connect() and close() calls of client id
CallsOf(id) ==
    {i \in DOMAIN heap.log :
        heap.log[i].client = id /\ heap.log[i].ev \in {"connect", "close"}}

\* the last connect() or close() call of client id (one was made)
LastCall(id) ==
    heap.log[CHOOSE i \in CallsOf(id) : \A j \in CallsOf(id) : j <= i]

C25_PolicyFixedAtConstruction ==
    \A id \in TransportClients :
        LET c == heap.clients[id]
        IN  /\ c.retry_config = MixinRetryConfig(c.config)
            /\ ConnectCalls(id) <= MixinRetryConfig(c.config).max_attempts

(***************************************************************************)
(* C35: what a failed connect() leaves open                                *)
(***************************************************************************)
\* context cx is still held in a field of the client that created it
Referenced(cx) ==
    \/ heap.clients[heap.ctxs[cx].owner].client_context = cx
    \/ heap.clients[heap.ctxs[cx].owner].session_context = cx

\* C35: a failed connect() attempt releases what it opened: every channel
\* or session context that was entered and that its client has let go of
\* (after the failed attempt, before the next one) has been exited.
C35_FailedConnectReleases ==
    \A cx \in DOMAIN heap.ctxs :
        (heap.ctxs[cx].entered /\ ~Referenced(cx)) => heap.ctxs[cx].exits >= 1

(***************************************************************************)
(* C36: the names of the tools                                             *)
(***************************************************************************)
\* the tools the clients hold and the tools the manager hands out
ExposedTools ==
    UNION {Range(heap.clients[id].tools) : id \in DOMAIN heap.clients}
      \cup Range(manager.loaded_tools)

\* C36: every tool discovered from a remote server is exposed under the
\* name <server_name>_<remote tool name>, the prefix of the client that
\* discovered it applied exactly once, on every loading path.
C36_PrefixedOnce ==
    \A tool \in ExposedTools :
        LET c == heap.clients[tool.conn]
        IN  \E i \in DOMAIN RemoteToolNames(c.config) :
                tool.name = <<c.server_name, "_", RemoteToolNames(c.config)[i]>>

(***************************************************************************)
(* C37: what reload_server changes                                         *)
(***************************************************************************)
RECURSIVE RootClient(_, _)
\* the client the manager created that client id belongs to
RootClient(h, id) ==
    IF h.clients[id].owner = 0 THEN id ELSE RootClient(h, h.clients[id].owner)

\* the loaded tools that do not come from server server_name
ToolsOfOthers(h, tools, server_name) ==
    SelectSeq(tools, LAMBDA tool :
        h.clients[RootClient(h, tool.conn)].server_name # server_name)

\* this step is a call of reload_server
IsReload == Len(ops') = Len(ops) + 1 /\ ops'[Len(ops')].op = "reload_server"

\* the step leaves the tools and the connection of every server but
\* server_name as they were
OthersUnchanged(server_name) ==
    /\ ToolsOfOthers(heap', manager'.loaded_tools, server_name)
         = ToolsOfOthers(heap', manager.loaded_tools, server_name)
    /\ \A i \in DOMAIN manager.clients :
          manager.clients[i].key # server_name =>
              /\ \E j \in DOMAIN manager'.clients :
                    manager'.clients[j] = manager.clients[i]
              /\ heap'.clients[manager.clients[i].val]
                   = heap.clients[manager.clients[i].val]

\* every connection the manager opened and that is still open is a value of
\* the clients map
OpenAreReferenced ==
    \A id \in DOMAIN heap.clients :
        (heap.clients[id].owner = 0 /\ heap.clients[id].is_connected) =>
            \E i \in DOMAIN manager.clients : manager.clients[i].val = id

\* C37: reload_server(s) changes only server s: the loaded tools and the open
\* connection of every other server, one whose name begins with s_ included,
\* are the same before and after the call; and after any sequence of
\* load_server, reload_server and close_all every connection still open is
\* referenced by the clients map.
C37_ReloadChangesOnlyItsServer ==
    /\ [][IsReload => OthersUnchanged(ops'[Len(ops')].server_name)]_vars
    /\ []OpenAreReferenced

(***************************************************************************)
(* C31, C32: a manager loaded from a configuration document                *)
(***************************************************************************)
\* the calls that loaded a configuration document
ConfigCalls ==
    {k \in DOMAIN ops : ops[k].op \in {"load_tools_from_config", "load_tools_from_yaml"}}

\* an enabled mcp_client entry with an inline mcp_config and no mcp_config_file
IsInlineEntry(tool_config) ==
    /\ Get(tool_config, "enabled", TRUE)
    /\ Get(tool_config, "provider", "auto") = "mcp_client"
    /\ ~Has(tool_config, "mcp_config_file")
    /\ Has(tool_config, "mcp_config")

\* a client was built from config under server_name and connect() was called
ConnectedWith(server_name, config) ==
    \E id \in DOMAIN heap.clients :
        /\ heap.clients[id].server_name = server_name
        /\ heap.clients[id].config = config
        /\ ConnectCalls(id) >= 1

\* C31: load_tools_from_config loads an enabled mcp_client entry that has an
\* inline mcp_config and no mcp_config_file by connecting with that inline
\* config, also when the entry's name is not among the discovered servers.
C31_InlineEntryLoaded ==
    \A k \in ConfigCalls :
        \A i \in DOMAIN ops[k].config.tools :
            LET entry == ops[k].config.tools[i]
            IN  IsInlineEntry(entry.config) =>
                    ConnectedWith(entry.name, entry.config.mcp_config)

\* the servers that discover_servers finds in the directory
Discoverable == DOMAIN discover_servers(NoManager).servers

\* C32: when a manager is created with auto_discover on and tools are loaded
\* right away, as load_tools_from_yaml does, discovery has completed before
\* the first lookup of load_server: no entry that names an existing, valid
\* descriptor file is reported as not found or not discovered.
C32_DiscoveredBeforeLoad ==
    \A k \in DOMAIN ops :
        ops[k].op = "load_tools_from_yaml" =>
            \A i \in DOMAIN ops[k].config.tools :
                LET tool_config == ops[k].config.tools[i].config
                IN  (/\ IsManagerEntry(tool_config)
                     /\ Get(tool_config, "mcp_config_file", "") \in Discoverable)
                        => ops[k].results[i] # "ValueError"

(***************************************************************************)
(* C33, C34: get_tools() called again, and what it hands out               *)
(***************************************************************************)
\* the first get_tools() call has returned
FirstLoadReturned ==
    loader.loads >= 2 \/ (loader.loads = 1 /\ loader.pc = "done")

\* the connect() calls made so far
ConnectCount(h) == Cardinality({i \in DOMAIN h.log : h.log[i].ev = "connect"})

\* C33: repeated get_tools() calls on one ToolLoader run loading at most
\* once: after the first call has returned, no step opens a new connection
\* or replaces an entry of the active-connections map, whatever the first
\* load produced.
C33_LoadsOnce ==
    [][FirstLoadReturned =>
          /\ ConnectCount(heap') = ConnectCount(heap)
          /\ \A i \in DOMAIN loader.mcp_clients, j \in DOMAIN loader'.mcp_clients :
                loader'.mcp_clients[j].key = loader.mcp_clients[i].key =>
                    loader'.mcp_clients[j].val = loader.mcp_clients[i].val]_vars

\* C34: at every point in a ToolLoader's life, each remotely-provided tool
\* that get_tools() returns and get_tool_summary() counts is bound to a
\* connection that is still in the active-connections map and connected,
\* and every connection listed in active_clients has is_connected = true.
C34_ToolsBoundToActive ==
    /\ \A tool \in Range(loader.loaded_tools) :
          tool.conn # 0 =>
              /\ heap.clients[tool.conn].is_connected
              /\ \E i \in DOMAIN loader.mcp_clients :
                    loader.mcp_clients[i].val = RootClient(heap, tool.conn)
    /\ \A i \in DOMAIN loader.mcp_clients :
          heap.clients[loader.mcp_clients[i].val].is_connected

=============================================================================
